---- MODULE Spec2Model ----
(***************************************************************************)
(* HR-Panel: the role/permission layer and the server actions that use it. *)
(* Storage (the Prisma tables User, Employee, Project, Task, Salary) is the *)
(* state; every server action and route handler is one action, translated  *)
(* from its code; `last` records what the most recent call did and          *)
(* returned, so that properties of a call can be stated.  kanban is the     *)
(* state of the Kanban board component, and inflight the server calls that  *)
(* are between their reads and their write.                                 *)
(***************************************************************************)
EXTENDS Integers, Sequences, FiniteSets, TLC

VARIABLES users, employees, projects, tasks, salaries, last, kanban, inflight

vars == <<users, employees, projects, tasks, salaries, last, kanban, inflight>>

(***************************************************************************)
(* Bounds of the model.                                                    *)
(***************************************************************************)
MaxUsers == 2
MaxEmployees == 2
MaxProjects == 2
MaxTasks == 1
MaxSalaries == 2
\* server calls that can be between their reads and their write at once
MaxInflight == 2

UserIds == 1..MaxUsers
EmpIds == 1..MaxEmployees
ProjIds == 1..MaxProjects
TaskIds == 1..MaxTasks
SalIds == 1..MaxSalaries

\* An id that names nothing: a null foreign key, an absent session, an
\* empty form field.
NoId == 0

(***************************************************************************)
(* Roles and the permission map.                                           *)
(***************************************************************************)
ROLES == {"ADMIN", "MANAGER", "EMPLOYEE"}

Resources == {"users", "employees", "projects", "tasks", "salaries"}

Actions == {"create", "read", "update", "delete"}

CRUD == {"create", "read", "update", "delete"}

\* The map with create missing from the MANAGER row of projects.
ROLE_PERMISSIONS_ManagerReadsProjects ==
  [r \in ROLES |->
     CASE r = "ADMIN" ->
            [users |-> CRUD, employees |-> CRUD, projects |-> CRUD,
             tasks |-> CRUD, salaries |-> CRUD]
       [] r = "MANAGER" ->
            [users |-> {"read"}, employees |-> {"read"},
             projects |-> {"read", "update", "delete"},
             tasks |-> CRUD, salaries |-> {"read", "update"}]
       [] r = "EMPLOYEE" ->
            [users |-> {}, employees |-> {"read"}, projects |-> {"read"},
             tasks |-> {"read", "update"}, salaries |-> {"read"}]]

\* The map with delete added to the MANAGER row of salaries.
ROLE_PERMISSIONS_ManagerDeletesSalaries ==
  [r \in ROLES |->
     CASE r = "ADMIN" ->
            [users |-> CRUD, employees |-> CRUD, projects |-> CRUD,
             tasks |-> CRUD, salaries |-> CRUD]
       [] r = "MANAGER" ->
            [users |-> {"read"}, employees |-> {"read"}, projects |-> CRUD,
             tasks |-> CRUD, salaries |-> {"read", "update", "delete"}]
       [] r = "EMPLOYEE" ->
            [users |-> {}, employees |-> {"read"}, projects |-> {"read"},
             tasks |-> {"read", "update"}, salaries |-> {"read"}]]

\* The map with delete added to the EMPLOYEE row of projects.
ROLE_PERMISSIONS_EmployeeDeletesProjects ==
  [r \in ROLES |->
     CASE r = "ADMIN" ->
            [users |-> CRUD, employees |-> CRUD, projects |-> CRUD,
             tasks |-> CRUD, salaries |-> CRUD]
       [] r = "MANAGER" ->
            [users |-> {"read"}, employees |-> {"read"}, projects |-> CRUD,
             tasks |-> CRUD, salaries |-> {"read", "update"}]
       [] r = "EMPLOYEE" ->
            [users |-> {}, employees |-> {"read"},
             projects |-> {"read", "delete"},
             tasks |-> {"read", "update"}, salaries |-> {"read"}]]

\* The map with read missing from the EMPLOYEE row of employees.
ROLE_PERMISSIONS_EmployeeNoDirectory ==
  [r \in ROLES |->
     CASE r = "ADMIN" ->
            [users |-> CRUD, employees |-> CRUD, projects |-> CRUD,
             tasks |-> CRUD, salaries |-> CRUD]
       [] r = "MANAGER" ->
            [users |-> {"read"}, employees |-> {"read"}, projects |-> CRUD,
             tasks |-> CRUD, salaries |-> {"read", "update"}]
       [] r = "EMPLOYEE" ->
            [users |-> {}, employees |-> {}, projects |-> {"read"},
             tasks |-> {"read", "update"}, salaries |-> {"read"}]]

\* The map with update added to the EMPLOYEE row of employees.
ROLE_PERMISSIONS_EmployeeUpdatesEmployees ==
  [r \in ROLES |->
     CASE r = "ADMIN" ->
            [users |-> CRUD, employees |-> CRUD, projects |-> CRUD,
             tasks |-> CRUD, salaries |-> CRUD]
       [] r = "MANAGER" ->
            [users |-> {"read"}, employees |-> {"read"}, projects |-> CRUD,
             tasks |-> CRUD, salaries |-> {"read", "update"}]
       [] r = "EMPLOYEE" ->
            [users |-> {}, employees |-> {"read", "update"}, projects |-> {"read"},
             tasks |-> {"read", "update"}, salaries |-> {"read"}]]

ROLE_PERMISSIONS ==
  [r \in ROLES |->
     CASE r = "ADMIN" ->
            [users |-> CRUD, employees |-> CRUD, projects |-> CRUD,
             tasks |-> CRUD, salaries |-> CRUD]
       [] r = "MANAGER" ->
            [users |-> {"read"}, employees |-> {"read"}, projects |-> CRUD,
             tasks |-> CRUD, salaries |-> {"read", "update"}]
       [] r = "EMPLOYEE" ->
            [users |-> {}, employees |-> {"read"}, projects |-> {"read"},
             tasks |-> {"read", "update"}, salaries |-> {"read"}]]

\* ROLE_PERMISSIONS[role][resource] is undefined for a role or a resource
\* that is no key of the map; .includes on undefined throws a TypeError.
permissionThrows(role, resource) ==
  \/ role \notin DOMAIN ROLE_PERMISSIONS
  \/ resource \notin DOMAIN ROLE_PERMISSIONS[role]

\* ROLE_PERMISSIONS[role][resource].includes(action)
hasPermission(role, resource, action) ==
  action \in ROLE_PERMISSIONS[role][resource]

(***************************************************************************)
(* Sessions.  A caller is a user id, or NoId for a request that carries no *)
(* session.  The identity of a request is the user's id and stored role.   *)
(***************************************************************************)
NoSession == [id |-> NoId, role |-> "NONE"]

auth(caller) ==
  IF caller \in DOMAIN users
    THEN [id |-> caller, role |-> users[caller]]
    ELSE NoSession

getCurrentSession(caller) == auth(caller)

Callers == {NoId} \cup DOMAIN users

(***************************************************************************)
(* What a call did and returned.  steps lists, in order, the checks passed *)
(* ("session": a signed-in user was found; "permission": hasPermission     *)
(* returned true; "role": an inline role test passed) and the storage      *)
(* operations performed ("read", "write").  target is the id the call      *)
(* addresses, out holds the rows returned, and old is, for a role update   *)
(* that was carried out, the role stored before it.  Every entry point    *)
(* runs in a try block whose catch returns { error }.                      *)
(***************************************************************************)
NoOut == [users |-> {}, employees |-> {}, salaries |-> {}, years |-> {},
          tasks |-> {}, projects |-> {}, total |-> 0, pages |-> 0]

\* The catch block re-throwing the redirect error of next/navigation.
catchBlock_RethrowsRedirect(thrown) ==
  IF thrown = "Unauthenticated" THEN "uncaught" ELSE "error"

\* catch (error) { console.error(...); return { error: message } }
catchBlock(thrown) == "error"

\* returned tells how the call left the entry point: with the success
\* object, with { error }, or with an exception nothing caught.
Ret(op, caller, target, result, steps, out) ==
  [op |-> op, caller |-> caller, role |-> auth(caller).role, target |-> target,
   result |-> result, steps |-> steps, out |-> out, old |-> "NONE",
   returned |-> IF result = "ok" THEN "success" ELSE catchBlock(result)]

Row(table, id) == [id |-> id, rec |-> table[id]]

Rows(table, ids) == {Row(table, id) : id \in ids}

\* Table operations: a table is a function from the ids of its rows.
Insert(table, id, rec) == table @@ (id :> rec)

Delete(table, ids) == [i \in DOMAIN table \ ids |-> table[i]]

EmptyTable == [i \in {} |-> NoId]

\* A fresh primary key (cuid()); NoId when the bound of the table is reached.
FreshId(table, ids) ==
  IF ids \subseteq DOMAIN table THEN NoId
  ELSE CHOOSE i \in ids \ DOMAIN table : \A j \in ids \ DOMAIN table : i <= j

\* prisma.employee.findUnique({ where: { userId } }): the id of the row, or NoId
employeeOfUser(userId) ==
  IF \E e \in DOMAIN employees : employees[e].userId = userId
    THEN CHOOSE e \in DOMAIN employees : employees[e].userId = userId
    ELSE NoId

(***************************************************************************)
(* The outcome of the guard that opens most server actions: the session    *)
(* lookup, then hasPermission(session.user.role, resource, action).  A     *)
(* redirect("/login") or an Error thrown inside the try block is caught    *)
(* and returned as { error }.                                              *)
(***************************************************************************)
Gate(caller, resource, action) ==
  LET session == auth(caller) IN
  IF session = NoSession THEN "Unauthenticated"
  ELSE IF permissionThrows(session.role, resource) THEN "TypeError"
  ELSE IF ~hasPermission(session.role, resource, action) THEN "Forbidden"
  ELSE "ok"

GateSteps(gate) ==
  CASE gate = "Unauthenticated" -> << >>
    [] gate = "ok" -> <<"session", "permission">>
    [] OTHER -> <<"session">>

(***************************************************************************)
(* The role column of User: role UserRole @default(EMPLOYEE).  A create or *)
(* update whose role is no value of the enum is refused by the Prisma      *)
(* client with a validation error, before any query is sent.               *)
(***************************************************************************)
\* The enum with the value USER added.
UserRole_WithUser == {"ADMIN", "MANAGER", "EMPLOYEE", "USER"}

\* enum UserRole { ADMIN MANAGER EMPLOYEE }
UserRole == {"ADMIN", "MANAGER", "EMPLOYEE"}

(***************************************************************************)
(* Registration.  A user's e-mail address and id are both unique keys of   *)
(* User; the model uses one value for both, so data.email names the row    *)
(* findUnique({ where: { email } }) looks up and the row create adds.      *)
(***************************************************************************)
\* data: [name, email, password]; registerSchema.parse throws a ZodError
\* for a name shorter than 2 or a password shorter than 8 characters.
registerUser(caller, data) ==
  /\ IF data.name = "" \/ data.email = NoId \/ data.password = ""
       THEN /\ users' = users
            /\ last' = Ret("registerUser", caller, data.email, "Invalid", << >>, NoOut)
     ELSE IF data.email \in DOMAIN users
       THEN /\ users' = users
            /\ last' = Ret("registerUser", caller, data.email, "Conflict",
                           <<"read">>, NoOut)
     ELSE IF "USER" \notin UserRole
       THEN /\ users' = users
            /\ last' = Ret("registerUser", caller, data.email, "StorageError",
                           <<"read">>, NoOut)
     ELSE /\ users' = Insert(users, data.email, "USER")
          /\ last' = Ret("registerUser", caller, data.email, "ok",
                         <<"read", "write">>, NoOut)
  /\ UNCHANGED <<employees, projects, tasks, salaries>>

(***************************************************************************)
(* user-actions.ts                                                         *)
(***************************************************************************)
UserRow(u) == [id |-> u, rec |-> [role |-> users[u], employee |-> employeeOfUser(u)]]

\* getUsers with the default search "": findMany, then count.
getUsers(caller) ==
  /\ last' = Ret("getUsers", caller, NoId, "ok", <<"read", "read">>,
                 [NoOut EXCEPT !.users = {UserRow(u) : u \in DOMAIN users}])
  /\ UNCHANGED <<users, employees, projects, tasks, salaries>>

\* prisma.user.update({ where: { id: userId }, data: { role } }) throws when
\* role is no value of the enum and when no row has the id; the catch block
\* returns { error }.
updateUserRole(caller, userId, role) ==
  /\ IF role \notin UserRole
       THEN /\ users' = users
            /\ last' = Ret("updateUserRole", caller, userId,
                           "StorageError", << >>, NoOut)
     ELSE IF userId \in DOMAIN users
       THEN /\ users' = [users EXCEPT ![userId] = role]
            /\ last' = [Ret("updateUserRole", caller, userId, "ok",
                            <<"write">>, NoOut) EXCEPT !.old = users[userId]]
       ELSE /\ users' = users
            /\ last' = Ret("updateUserRole", caller, userId,
                           "NotFound", <<"write">>, NoOut)
  /\ UNCHANGED <<employees, projects, tasks, salaries>>

\* POST of the role-update route: body { userId, role }.
POST(caller, userId, role) ==
  /\ IF userId = NoId \/ role = ""
       THEN /\ users' = users
            /\ last' = Ret("POST", caller, userId, "Invalid", << >>, NoOut)
     ELSE IF role \notin ROLES
       THEN /\ users' = users
            /\ last' = Ret("POST", caller, userId, "Invalid", << >>, NoOut)
     ELSE IF userId \notin DOMAIN users
       THEN /\ users' = users
            /\ last' = Ret("POST", caller, userId, "NotFound",
                           <<"read">>, NoOut)
     ELSE /\ users' = [users EXCEPT ![userId] = role]
          /\ last' = [Ret("POST", caller, userId, "ok",
                          <<"read", "write">>,
                          [NoOut EXCEPT !.users = {[id |-> userId,
                                                    rec |-> [role |-> role]]}])
                      EXCEPT !.old = users[userId]]
  /\ UNCHANGED <<employees, projects, tasks, salaries>>

(***************************************************************************)
(* employee-actions.ts                                                     *)
(***************************************************************************)
\* The value parseFloat / parseInt give for a field that holds no number.
\* The amounts, months and years of the model are never negative.
NaN == -1

\* salaries of one employee
salariesOf(employeeId) ==
  {s \in DOMAIN salaries : salaries[s].employeeId = employeeId}

\* orderBy [{ year: "desc" }, { month: "desc" }]
Later(a, b) ==
  \/ salaries[a].year > salaries[b].year
  \/ salaries[a].year = salaries[b].year /\ salaries[a].month > salaries[b].month
  \/ salaries[a].year = salaries[b].year /\ salaries[a].month = salaries[b].month
     /\ a <= b

RECURSIVE Take(_, _)
\* the first n ids of S in that order (take: n)
Take(S, n) ==
  IF n = 0 \/ S = {} THEN {}
  ELSE LET first == CHOOSE a \in S : \A b \in S : Later(a, b)
       IN {first} \cup Take(S \ {first}, n - 1)

\* take: 12, "the last 12 salary records"
SalaryTake == 12

\* getEmployees with the default search "": three reads (findMany({}),
\* findMany, count); limit 10 covers the tables of the model.
getEmployees(caller) ==
  LET gate == Gate(caller, "employees", "read") IN
  /\ IF gate # "ok"
       THEN last' = Ret("getEmployees", caller, NoId, gate, GateSteps(gate), NoOut)
       ELSE last' = Ret("getEmployees", caller, NoId, "ok",
                        GateSteps(gate) \o <<"read", "read", "read">>,
                        [NoOut EXCEPT !.employees = Rows(employees, DOMAIN employees)])
  /\ UNCHANGED <<users, employees, projects, tasks, salaries>>

\* searchEmployees with the default search "": findMany, then count.
searchEmployees(caller) ==
  LET gate == Gate(caller, "employees", "read") IN
  /\ IF gate # "ok"
       THEN last' = Ret("searchEmployees", caller, NoId, gate, GateSteps(gate), NoOut)
       ELSE last' = Ret("searchEmployees", caller, NoId, "ok",
                        GateSteps(gate) \o <<"read", "read">>,
                        [NoOut EXCEPT !.employees = Rows(employees, DOMAIN employees)])
  /\ UNCHANGED <<users, employees, projects, tasks, salaries>>

\* The ownership test with the comparison of the ids inverted.
viewsOtherEmployee_Inverted(session, employee) ==
  session.role = "EMPLOYEE" /\ employee.userId = session.id

\* The ownership test of getEmployeeById left out.
viewsOtherEmployee_Dropped(session, employee) == FALSE

\* session.user.role === ROLES.EMPLOYEE && employee.userId !== session.user.id
viewsOtherEmployee(session, employee) ==
  session.role = "EMPLOYEE" /\ employee.userId # session.id

getEmployeeById(caller, id) ==
  LET gate == Gate(caller, "employees", "read")
      session == getCurrentSession(caller)
  IN
  /\ IF gate # "ok"
       THEN last' = Ret("getEmployeeById", caller, id, gate, GateSteps(gate), NoOut)
     ELSE IF id \notin DOMAIN employees
       THEN last' = Ret("getEmployeeById", caller, id, "NotFound",
                        GateSteps(gate) \o <<"read">>, NoOut)
     ELSE IF viewsOtherEmployee(session, employees[id])
       THEN last' = Ret("getEmployeeById", caller, id, "Forbidden",
                        GateSteps(gate) \o <<"read">>, NoOut)
     ELSE last' = Ret("getEmployeeById", caller, id, "ok",
                      GateSteps(gate) \o <<"read">>,
                      [NoOut EXCEPT
                         !.employees = {Row(employees, id)},
                         !.salaries = Rows(salaries, Take(salariesOf(id), SalaryTake))])
  /\ UNCHANGED <<users, employees, projects, tasks, salaries>>

\* form: [userId, position, department, joinDate, baseSalary]; now: the
\* month and year of new Date().
createEmployee(caller, form, now) ==
  LET gate == Gate(caller, "employees", "create")
      newId == FreshId(employees, EmpIds)
      salId == FreshId(salaries, SalIds)
  IN
  IF gate # "ok"
    THEN /\ last' = Ret("createEmployee", caller, form.userId, gate, GateSteps(gate), NoOut)
         /\ UNCHANGED <<users, employees, projects, tasks, salaries>>
  ELSE IF \/ form.userId = NoId \/ form.position = "" \/ form.department = ""
          \/ form.joinDate = "" \/ form.baseSalary = NaN
    THEN /\ last' = Ret("createEmployee", caller, form.userId, "Invalid", GateSteps(gate), NoOut)
         /\ UNCHANGED <<users, employees, projects, tasks, salaries>>
  ELSE IF form.userId \notin DOMAIN users
    THEN /\ last' = Ret("createEmployee", caller, form.userId, "NotFound",
                        GateSteps(gate) \o <<"read">>, NoOut)
         /\ UNCHANGED <<users, employees, projects, tasks, salaries>>
  ELSE IF employeeOfUser(form.userId) # NoId
    THEN /\ last' = Ret("createEmployee", caller, form.userId, "Conflict",
                        GateSteps(gate) \o <<"read", "read">>, NoOut)
         /\ UNCHANGED <<users, employees, projects, tasks, salaries>>
  ELSE /\ newId # NoId
       /\ salId # NoId
       /\ employees' = Insert(employees, newId,
                              [userId |-> form.userId, position |-> form.position,
                               department |-> form.department,
                               joinDate |-> form.joinDate])
       /\ salaries' = Insert(salaries, salId,
                             [employeeId |-> newId, month |-> now.month,
                              year |-> now.year, baseSalary |-> form.baseSalary,
                              bonus |-> 0, deductions |-> 0,
                              totalSalary |-> form.baseSalary])
       /\ last' = Ret("createEmployee", caller, form.userId, "ok",
                      GateSteps(gate) \o <<"read", "read", "write", "write">>, NoOut)
       /\ UNCHANGED <<users, projects, tasks>>

\* createEmployee up to and including prisma.employee.create.  A call that
\* fails a check returns as createEmployee does; a call that passes has
\* inserted the Employee and has the initial salary still to create.
createEmployee_employee(caller, form) ==
  LET passes ==
        /\ Gate(caller, "employees", "create") = "ok"
        /\ form.userId # NoId /\ form.position # "" /\ form.department # ""
        /\ form.joinDate # "" /\ form.baseSalary # NaN
        /\ form.userId \in DOMAIN users
        /\ employeeOfUser(form.userId) = NoId
      newId == FreshId(employees, EmpIds)
  IN
  /\ IF ~passes
       THEN \* the date is read only after the Employee is created
            /\ createEmployee(caller, form, [month |-> 1, year |-> 2025])
            /\ inflight' = inflight
     ELSE /\ Cardinality(inflight) < MaxInflight
          /\ newId # NoId
          /\ employees' = Insert(employees, newId,
                                 [userId |-> form.userId, position |-> form.position,
                                  department |-> form.department,
                                  joinDate |-> form.joinDate])
          /\ inflight' = inflight \cup
               {[op |-> "createEmployee", caller |-> caller, form |-> form,
                 existing |-> newId]}
          /\ UNCHANGED <<users, projects, tasks, salaries, last>>
  /\ kanban' = kanban

\* The rest of createEmployee: prisma.salary.create for the month and year
\* of now, which throws when the database refuses the row (the employee
\* deleted since, or a Salary of that month already there).
createEmployee_salary(call, now) ==
  LET form == call.form
      steps == <<"session", "permission", "read", "read", "write", "write">>
      salId == FreshId(salaries, SalIds)
  IN
  /\ call \in inflight
  /\ call.op = "createEmployee"
  /\ IF (call.existing \notin DOMAIN employees
         \/ \E s \in salariesOf(call.existing) :
              salaries[s].month = now.month /\ salaries[s].year = now.year)
       THEN /\ last' = Ret("createEmployee", call.caller, form.userId,
                           "StorageError", steps, NoOut)
            /\ salaries' = salaries
     ELSE /\ salId # NoId
          /\ salaries' = Insert(salaries, salId,
                                [employeeId |-> call.existing, month |-> now.month,
                                 year |-> now.year, baseSalary |-> form.baseSalary,
                                 bonus |-> 0, deductions |-> 0,
                                 totalSalary |-> form.baseSalary])
          /\ last' = Ret("createEmployee", call.caller, form.userId, "ok",
                         steps, NoOut)
  /\ inflight' = inflight \ {call}
  /\ UNCHANGED <<users, employees, projects, tasks, kanban>>

\* session.user.role === ROLES.EMPLOYEE && employee.userId !== session.user.id
updatesOtherEmployee(session, employee) ==
  session.role = "EMPLOYEE" /\ employee.userId # session.id

\* form: [id, position, department]
updateEmployee(caller, form) ==
  LET gate == Gate(caller, "employees", "update")
      session == getCurrentSession(caller)
  IN
  /\ IF gate # "ok"
       THEN /\ last' = Ret("updateEmployee", caller, form.id, gate, GateSteps(gate), NoOut)
            /\ employees' = employees
     ELSE IF form.id = NoId \/ form.position = "" \/ form.department = ""
       THEN /\ last' = Ret("updateEmployee", caller, form.id, "Invalid",
                           GateSteps(gate), NoOut)
            /\ employees' = employees
     ELSE IF form.id \notin DOMAIN employees
       THEN /\ last' = Ret("updateEmployee", caller, form.id, "NotFound",
                           GateSteps(gate) \o <<"read">>, NoOut)
            /\ employees' = employees
     ELSE IF updatesOtherEmployee(session, employees[form.id])
       THEN /\ last' = Ret("updateEmployee", caller, form.id, "Forbidden",
                           GateSteps(gate) \o <<"read">>, NoOut)
            /\ employees' = employees
     ELSE /\ employees' = [employees EXCEPT ![form.id].position = form.position,
                                            ![form.id].department = form.department]
          /\ last' = Ret("updateEmployee", caller, form.id, "ok",
                         GateSteps(gate) \o <<"read", "write">>, NoOut)
  /\ UNCHANGED <<users, projects, tasks, salaries>>

\* Employee.delete with the relations of the schema: Salary.employee is
\* onDelete: Cascade, Task.assignedTo is onDelete: SetNull.
deleteEmployeeRow(id) ==
  /\ employees' = Delete(employees, {id})
  /\ salaries' = Delete(salaries, salariesOf(id))
  /\ tasks' = [t \in DOMAIN tasks |->
                 IF tasks[t].assignedToId = id
                   THEN [tasks[t] EXCEPT !.assignedToId = NoId]
                   ELSE tasks[t]]

deleteEmployee(caller, id) ==
  LET gate == Gate(caller, "employees", "delete") IN
  IF gate # "ok"
    THEN /\ last' = Ret("deleteEmployee", caller, id, gate, GateSteps(gate), NoOut)
         /\ UNCHANGED <<users, employees, projects, tasks, salaries>>
  ELSE IF id \notin DOMAIN employees
    THEN /\ last' = Ret("deleteEmployee", caller, id, "NotFound",
                        GateSteps(gate) \o <<"read">>, NoOut)
         /\ UNCHANGED <<users, employees, projects, tasks, salaries>>
  ELSE /\ deleteEmployeeRow(id)
       /\ last' = Ret("deleteEmployee", caller, id, "ok",
                      GateSteps(gate) \o <<"read", "write">>, NoOut)
       /\ UNCHANGED <<users, projects>>

(***************************************************************************)
(* salary-actions.ts                                                       *)
(***************************************************************************)
\* The ownership test applied to managers instead of employees.
viewsOtherSalary_WrongRole(session, employee) ==
  session.role = "MANAGER" /\ employee.userId # session.id

\* The ownership test left out.
viewsOtherSalary_Dropped(session, employee) == FALSE

\* session.user.role === ROLES.EMPLOYEE && employee.userId !== session.user.id
viewsOtherSalary(session, employee) ==
  session.role = "EMPLOYEE" /\ employee.userId # session.id

\* year = NoId: no year filter; the default limit is 12.
getEmployeeSalaries(caller, employeeId, year) ==
  LET gate == Gate(caller, "salaries", "read")
      session == auth(caller)
      found == {s \in salariesOf(employeeId) : year = NoId \/ salaries[s].year = year}
  IN
  /\ IF gate # "ok"
       THEN last' = Ret("getEmployeeSalaries", caller, employeeId, gate, GateSteps(gate), NoOut)
     ELSE IF employeeId \notin DOMAIN employees
       THEN last' = Ret("getEmployeeSalaries", caller, employeeId, "NotFound",
                        GateSteps(gate) \o <<"read">>, NoOut)
     ELSE IF viewsOtherSalary(session, employees[employeeId])
       THEN last' = Ret("getEmployeeSalaries", caller, employeeId, "Forbidden",
                        GateSteps(gate) \o <<"read">>, NoOut)
     ELSE last' = Ret("getEmployeeSalaries", caller, employeeId, "ok",
                      GateSteps(gate) \o <<"read", "read", "read">>,
                      [NoOut EXCEPT
                         !.salaries = Rows(salaries, Take(found, SalaryTake)),
                         !.years = {salaries[s].year : s \in salariesOf(employeeId)}])
  /\ UNCHANGED <<users, employees, projects, tasks, salaries>>

\* findUnique({ where: { employeeId_month_year } }): the id of the row, or NoId
salaryOfMonth(employeeId, month, year) ==
  LET S == {s \in salariesOf(employeeId) :
              salaries[s].month = month /\ salaries[s].year = year}
  IN IF S = {} THEN NoId ELSE CHOOSE s \in S : TRUE

\* The total without the deductions taken off.
totalSalaryOf_DeductionsIgnored(baseSalary, bonus, deductions) == baseSalary + bonus

\* const totalSalary = baseSalary + bonus - deductions
totalSalaryOf(baseSalary, bonus, deductions) == baseSalary + bonus - deductions

\* parseFloat of a bonus or deductions field that holds no number is NaN,
\* which no check of the handler catches and a Float column cannot hold:
\* the write is refused.
amountsStorable(form) == form.bonus # NaN /\ form.deductions # NaN

\* form: [employeeId, month, year, baseSalary, bonus, deductions]
saveSalaryRecord(caller, form) ==
  LET gate == Gate(caller, "salaries", "update")
      totalSalary == totalSalaryOf(form.baseSalary, form.bonus, form.deductions)
      existingSalary == salaryOfMonth(form.employeeId, form.month, form.year)
      salId == FreshId(salaries, SalIds)
  IN
  /\ IF gate # "ok"
       THEN /\ last' = Ret("saveSalaryRecord", caller, form.employeeId, gate, GateSteps(gate), NoOut)
            /\ salaries' = salaries
     ELSE IF \/ form.employeeId = NoId \/ form.month = NaN \/ form.year = NaN
             \/ form.baseSalary = NaN
       THEN /\ last' = Ret("saveSalaryRecord", caller, form.employeeId, "Invalid",
                           GateSteps(gate), NoOut)
            /\ salaries' = salaries
     ELSE IF form.month < 1 \/ form.month > 12
       THEN /\ last' = Ret("saveSalaryRecord", caller, form.employeeId, "Invalid",
                           GateSteps(gate), NoOut)
            /\ salaries' = salaries
     ELSE IF form.year < 2000 \/ form.year > 2100
       THEN /\ last' = Ret("saveSalaryRecord", caller, form.employeeId, "Invalid",
                           GateSteps(gate), NoOut)
            /\ salaries' = salaries
     ELSE IF form.employeeId \notin DOMAIN employees
       THEN /\ last' = Ret("saveSalaryRecord", caller, form.employeeId, "NotFound",
                           GateSteps(gate) \o <<"read">>, NoOut)
            /\ salaries' = salaries
     ELSE IF ~amountsStorable(form)
       THEN /\ last' = Ret("saveSalaryRecord", caller, form.employeeId, "StorageError",
                           GateSteps(gate) \o <<"read", "read", "write">>, NoOut)
            /\ salaries' = salaries
     ELSE IF existingSalary # NoId
       THEN /\ salaries' = [salaries EXCEPT
                              ![existingSalary].baseSalary = form.baseSalary,
                              ![existingSalary].bonus = form.bonus,
                              ![existingSalary].deductions = form.deductions,
                              ![existingSalary].totalSalary = totalSalary]
            /\ last' = Ret("saveSalaryRecord", caller, form.employeeId, "ok",
                           GateSteps(gate) \o <<"read", "read", "write">>, NoOut)
     ELSE /\ salId # NoId
          /\ salaries' = Insert(salaries, salId,
                                [employeeId |-> form.employeeId, month |-> form.month,
                                 year |-> form.year, baseSalary |-> form.baseSalary,
                                 bonus |-> form.bonus, deductions |-> form.deductions,
                                 totalSalary |-> totalSalary])
          /\ last' = Ret("saveSalaryRecord", caller, form.employeeId, "ok",
                         GateSteps(gate) \o <<"read", "read", "write">>, NoOut)
  /\ UNCHANGED <<users, employees, projects, tasks>>

\* A Salary row without the unique index on (employeeId, month, year).
salaryKeysHold_NoUniqueIndex(employeeId, month, year) ==
  employeeId \in DOMAIN employees

\* The constraints of a Salary row: employeeId names an Employee and
\* @@unique([employeeId, month, year]).  A create that breaks one is
\* refused by the database and the catch block returns { error }.
salaryKeysHold(employeeId, month, year) ==
  /\ employeeId \in DOMAIN employees
  /\ salaryOfMonth(employeeId, month, year) = NoId

\* saveSalaryRecord up to and including its reads: the session, the
\* permission, the validation, employee.findUnique and salary.findUnique.
\* A call that fails one of them returns as saveSalaryRecord does; a call
\* that passes holds existingSalary and has its write still to do.
saveSalaryRecord_lookup(caller, form) ==
  LET passes ==
        /\ Gate(caller, "salaries", "update") = "ok"
        /\ form.employeeId # NoId /\ form.month # NaN /\ form.year # NaN
        /\ form.baseSalary # NaN
        /\ form.month >= 1 /\ form.month <= 12
        /\ form.year >= 2000 /\ form.year <= 2100
        /\ form.employeeId \in DOMAIN employees
  IN
  /\ IF ~passes
       THEN /\ saveSalaryRecord(caller, form)
            /\ inflight' = inflight
     ELSE /\ Cardinality(inflight) < MaxInflight
          /\ inflight' = inflight \cup
               {[op |-> "saveSalaryRecord", caller |-> caller, form |-> form,
                 existing |-> salaryOfMonth(form.employeeId, form.month, form.year)]}
          /\ UNCHANGED <<users, employees, projects, tasks, salaries, last>>
  /\ kanban' = kanban

\* The write of a call in flight: salary.update({ where: { id:
\* existingSalary.id } }) when the lookup found a record, salary.create
\* otherwise.  An update of a record deleted since, and a create the
\* constraints refuse, throw.
saveSalaryRecord_write(call) ==
  LET form == call.form
      steps == <<"session", "permission", "read", "read", "write">>
      totalSalary == totalSalaryOf(form.baseSalary, form.bonus, form.deductions)
      salId == FreshId(salaries, SalIds)
  IN
  /\ call \in inflight
  /\ call.op = "saveSalaryRecord"
  /\ IF ~amountsStorable(form)
       THEN /\ last' = Ret("saveSalaryRecord", call.caller, form.employeeId,
                           "StorageError", steps, NoOut)
            /\ salaries' = salaries
     ELSE IF call.existing # NoId
       THEN IF call.existing \notin DOMAIN salaries
              THEN /\ last' = Ret("saveSalaryRecord", call.caller, form.employeeId,
                                  "StorageError", steps, NoOut)
                   /\ salaries' = salaries
            ELSE /\ salaries' = [salaries EXCEPT
                                   ![call.existing].baseSalary = form.baseSalary,
                                   ![call.existing].bonus = form.bonus,
                                   ![call.existing].deductions = form.deductions,
                                   ![call.existing].totalSalary = totalSalary]
                 /\ last' = Ret("saveSalaryRecord", call.caller, form.employeeId,
                                "ok", steps, NoOut)
     ELSE IF ~salaryKeysHold(form.employeeId, form.month, form.year)
       THEN /\ last' = Ret("saveSalaryRecord", call.caller, form.employeeId,
                           "StorageError", steps, NoOut)
            /\ salaries' = salaries
     ELSE /\ salId # NoId
          /\ salaries' = Insert(salaries, salId,
                                [employeeId |-> form.employeeId, month |-> form.month,
                                 year |-> form.year, baseSalary |-> form.baseSalary,
                                 bonus |-> form.bonus, deductions |-> form.deductions,
                                 totalSalary |-> totalSalary])
          /\ last' = Ret("saveSalaryRecord", call.caller, form.employeeId, "ok",
                         steps, NoOut)
  /\ inflight' = inflight \ {call}
  /\ UNCHANGED <<users, employees, projects, tasks, kanban>>

\* The role test that lets managers through as well.
mayDeleteSalary_Managers(session) == session.role \in {"ADMIN", "MANAGER"}

\* session.user.role !== ROLES.ADMIN: "Only admins can delete salary records"
mayDeleteSalary(session) == session.role = "ADMIN"

deleteSalaryRecord(caller, id) ==
  LET session == auth(caller) IN
  /\ IF session = NoSession
       THEN /\ last' = Ret("deleteSalaryRecord", caller, id, "Unauthenticated",
                           << >>, NoOut)
            /\ salaries' = salaries
     ELSE IF ~mayDeleteSalary(session)
       THEN /\ last' = Ret("deleteSalaryRecord", caller, id, "Forbidden",
                           <<"session">>, NoOut)
            /\ salaries' = salaries
     ELSE IF id \notin DOMAIN salaries
       THEN /\ last' = Ret("deleteSalaryRecord", caller, id, "NotFound",
                           <<"session", "role", "read">>, NoOut)
            /\ salaries' = salaries
     ELSE /\ salaries' = Delete(salaries, {id})
          /\ last' = Ret("deleteSalaryRecord", caller, id, "ok",
                         <<"session", "role", "read", "write">>, NoOut)
  /\ UNCHANGED <<users, employees, projects, tasks>>

(***************************************************************************)
(* project actions                                                         *)
(***************************************************************************)
tasksOf(projectId) == {t \in DOMAIN tasks : tasks[t].projectId = projectId}

\* Math.ceil(total / limit)
pagesOf(total, limit) == (total + limit - 1) \div limit

\* limit = 10, the default of getProjects
ProjectLimit == 10

\* The where clause of getProjects: the search text against the name, and
\* the status, each when non-empty.
projectWhere(project, filter) ==
  /\ filter.search # "" => project.name = filter.search
  /\ filter.status # "" => project.status = filter.status

\* Math.round((completedTasks / totalTasks) * 100), 0 for no tasks
progressOf(completedTasks, totalTasks) ==
  IF totalTasks > 0 THEN (200 * completedTasks + totalTasks) \div (2 * totalTasks)
  ELSE 0

doneTasksOf(projectId) == {t \in tasksOf(projectId) : tasks[t].status = "DONE"}

\* The number of rows a relation include with take: n brings back.
takeCount(n, rows) == IF Cardinality(rows) < n THEN Cardinality(rows) ELSE n

\* The include of the DONE tasks with every row taken.
DoneTake_All == MaxTasks

\* include: { tasks: { take: 0, where: { status: 'DONE' } } }
DoneTake == 0

\* A project of the list: _count.tasks, tasks.length and the progress.
projectListRow(id) ==
  LET totalTasks == Cardinality(tasksOf(id))
      completedTasks == takeCount(DoneTake, doneTasksOf(id))
  IN [id |-> id, rec |-> projects[id], totalTasks |-> totalTasks,
      completedTasks |-> completedTasks,
      progress |-> progressOf(completedTasks, totalTasks)]

\* The project of the detail page: tasks.length, the tasks with status
\* DONE among them, and the progress.
projectDetailRow(id) ==
  LET totalTasks == Cardinality(tasksOf(id))
      completedTasks == Cardinality(doneTasksOf(id))
  IN [id |-> id, rec |-> projects[id], totalTasks |-> totalTasks,
      completedTasks |-> completedTasks,
      progress |-> progressOf(completedTasks, totalTasks)]

\* limit = 10: the first page holds every project the table can have.
getProjects(caller, filter) ==
  LET gate == Gate(caller, "projects", "read")
      selected == {p \in DOMAIN projects : projectWhere(projects[p], filter)}
  IN
  /\ IF gate # "ok"
       THEN last' = Ret("getProjects", caller, NoId, gate, GateSteps(gate), NoOut)
     ELSE last' = Ret("getProjects", caller, NoId, "ok",
                      GateSteps(gate) \o <<"read", "read">>,
                      [NoOut EXCEPT
                         !.projects = {projectListRow(p) : p \in selected},
                         !.total = Cardinality(selected),
                         !.pages = pagesOf(Cardinality(selected), ProjectLimit)])
  /\ UNCHANGED <<users, employees, projects, tasks, salaries>>

getProjectById(caller, id) ==
  LET gate == Gate(caller, "projects", "read") IN
  /\ IF gate # "ok"
       THEN last' = Ret("getProjectById", caller, id, gate, GateSteps(gate), NoOut)
     ELSE IF id \notin DOMAIN projects
       THEN last' = Ret("getProjectById", caller, id, "NotFound",
                        GateSteps(gate) \o <<"read">>, NoOut)
     ELSE last' = Ret("getProjectById", caller, id, "ok",
                      GateSteps(gate) \o <<"read">>,
                      [NoOut EXCEPT !.projects = {projectDetailRow(id)},
                                    !.tasks = Rows(tasks, tasksOf(id))])
  /\ UNCHANGED <<users, employees, projects, tasks, salaries>>

\* form: [id, name, status, startDate]
updateProject(caller, form) ==
  LET gate == Gate(caller, "projects", "update") IN
  /\ IF gate # "ok"
       THEN /\ last' = Ret("updateProject", caller, form.id, gate, GateSteps(gate), NoOut)
            /\ projects' = projects
     ELSE IF form.id = NoId \/ form.name = "" \/ form.status = "" \/ form.startDate = ""
       THEN /\ last' = Ret("updateProject", caller, form.id, "Invalid",
                           GateSteps(gate), NoOut)
            /\ projects' = projects
     ELSE IF form.id \notin DOMAIN projects
       THEN /\ last' = Ret("updateProject", caller, form.id, "NotFound",
                           GateSteps(gate) \o <<"read">>, NoOut)
            /\ projects' = projects
     ELSE /\ projects' = [projects EXCEPT
                            ![form.id] = [name |-> form.name, status |-> form.status,
                                          startDate |-> form.startDate]]
          /\ last' = Ret("updateProject", caller, form.id, "ok",
                         GateSteps(gate) \o <<"read", "write">>, NoOut)
  /\ UNCHANGED <<users, employees, tasks, salaries>>

\* form: [name, status, startDate]
createProject(caller, form) ==
  LET gate == Gate(caller, "projects", "create")
      newId == FreshId(projects, ProjIds)
  IN
  /\ IF gate # "ok"
       THEN /\ last' = Ret("createProject", caller, NoId, gate, GateSteps(gate), NoOut)
            /\ projects' = projects
     ELSE IF form.name = "" \/ form.status = "" \/ form.startDate = ""
       THEN /\ last' = Ret("createProject", caller, NoId, "Invalid",
                           GateSteps(gate), NoOut)
            /\ projects' = projects
     ELSE /\ newId # NoId
          /\ projects' = Insert(projects, newId,
                                [name |-> form.name, status |-> form.status,
                                 startDate |-> form.startDate])
          /\ last' = Ret("createProject", caller, NoId, "ok",
                         GateSteps(gate) \o <<"write">>, NoOut)
  /\ UNCHANGED <<users, employees, tasks, salaries>>

\* Project.delete: Task.project is onDelete: Cascade.
deleteProject(caller, id) ==
  LET gate == Gate(caller, "projects", "delete") IN
  /\ IF gate # "ok"
       THEN /\ last' = Ret("deleteProject", caller, id, gate, GateSteps(gate), NoOut)
            /\ UNCHANGED <<projects, tasks>>
     ELSE IF id \notin DOMAIN projects
       THEN /\ last' = Ret("deleteProject", caller, id, "NotFound",
                           GateSteps(gate) \o <<"read">>, NoOut)
            /\ UNCHANGED <<projects, tasks>>
     ELSE /\ projects' = Delete(projects, {id})
          /\ tasks' = Delete(tasks, tasksOf(id))
          /\ last' = Ret("deleteProject", caller, id, "ok",
                         GateSteps(gate) \o <<"read", "write">>, NoOut)
  /\ UNCHANGED <<users, employees, salaries>>

(***************************************************************************)
(* task actions                                                            *)
(***************************************************************************)
\* The check without the foreign key of assignedToId.
taskKeysHold_AssigneeUnchecked(projectId, assignedToId) ==
  projectId \in DOMAIN projects

\* The check without the foreign key of projectId.
taskKeysHold_ProjectUnchecked(projectId, assignedToId) ==
  assignedToId = NoId \/ assignedToId \in DOMAIN employees

\* The foreign keys of a Task row: projectId names a Project, assignedToId
\* is null or names an Employee.  A write that breaks one is refused by
\* the database and the catch block returns { error }.
taskKeysHold(projectId, assignedToId) ==
  /\ projectId \in DOMAIN projects
  /\ assignedToId = NoId \/ assignedToId \in DOMAIN employees

getTaskById(caller, id) ==
  LET gate == Gate(caller, "tasks", "read") IN
  /\ IF gate # "ok"
       THEN last' = Ret("getTaskById", caller, id, gate, GateSteps(gate), NoOut)
     ELSE IF id \notin DOMAIN tasks
       THEN last' = Ret("getTaskById", caller, id, "NotFound",
                        GateSteps(gate) \o <<"read">>, NoOut)
     ELSE last' = Ret("getTaskById", caller, id, "ok",
                      GateSteps(gate) \o <<"read">>,
                      [NoOut EXCEPT !.tasks = {Row(tasks, id)}])
  /\ UNCHANGED <<users, employees, projects, tasks, salaries>>

\* form: [title, description, projectId, priority, status, assignedToId]
createTask(caller, form) ==
  LET gate == Gate(caller, "tasks", "create")
      newId == FreshId(tasks, TaskIds)
  IN
  /\ IF gate # "ok"
       THEN /\ last' = Ret("createTask", caller, form.projectId, gate, GateSteps(gate), NoOut)
            /\ tasks' = tasks
     ELSE IF \/ form.title = "" \/ form.projectId = NoId \/ form.status = ""
             \/ form.priority = ""
       THEN /\ last' = Ret("createTask", caller, form.projectId, "Invalid",
                           GateSteps(gate), NoOut)
            /\ tasks' = tasks
     ELSE IF form.projectId \notin DOMAIN projects
       THEN /\ last' = Ret("createTask", caller, form.projectId, "NotFound",
                           GateSteps(gate) \o <<"read">>, NoOut)
            /\ tasks' = tasks
     ELSE IF ~taskKeysHold(form.projectId, form.assignedToId)
       THEN /\ last' = Ret("createTask", caller, form.projectId, "StorageError",
                           GateSteps(gate) \o <<"read", "write">>, NoOut)
            /\ tasks' = tasks
     ELSE /\ newId # NoId
          /\ tasks' = Insert(tasks, newId,
                             [title |-> form.title, description |-> form.description,
                              projectId |-> form.projectId, priority |-> form.priority,
                              status |-> form.status,
                              assignedToId |-> form.assignedToId])
          /\ last' = Ret("createTask", caller, form.projectId, "ok",
                         GateSteps(gate) \o <<"read", "write">>, NoOut)
  /\ UNCHANGED <<users, employees, projects, salaries>>

\* The assignment test that lets anyone update an unassigned task.
notAssignedTo_UnassignedOpen(existingTask, employeeId) ==
  existingTask.assignedToId # employeeId /\ existingTask.assignedToId # NoId

\* The assignment test left out.
notAssignedTo_Dropped(existingTask, employeeId) == FALSE

\* existingTask.assignedToId !== employee.id
notAssignedTo(existingTask, employeeId) == existingTask.assignedToId # employeeId

\* The EMPLOYEE branch writing the title and priority of the form as well.
employeeTaskData_WithTitle(existingTask, form) ==
  [existingTask EXCEPT !.status = form.status, !.title = form.title,
                       !.priority = form.priority]

\* data of the update in the EMPLOYEE branch: { status }
employeeTaskData(existingTask, form) ==
  [existingTask EXCEPT !.status = form.status]

\* data of the update in the ADMIN / MANAGER branch
managerTaskData(existingTask, form) ==
  [existingTask EXCEPT !.title = form.title, !.description = form.description,
                       !.projectId = form.projectId, !.priority = form.priority,
                       !.status = form.status, !.assignedToId = form.assignedToId]

\* form: [id, title, description, projectId, priority, status, assignedToId]
updateTask(caller, form) ==
  LET gate == Gate(caller, "tasks", "update")
      session == auth(caller)
      employee == employeeOfUser(session.id)
  IN
  /\ IF gate # "ok"
       THEN /\ last' = Ret("updateTask", caller, form.id, gate, GateSteps(gate), NoOut)
            /\ tasks' = tasks
     ELSE IF \/ form.id = NoId \/ form.title = "" \/ form.projectId = NoId
             \/ form.status = "" \/ form.priority = ""
       THEN /\ last' = Ret("updateTask", caller, form.id, "Invalid",
                           GateSteps(gate), NoOut)
            /\ tasks' = tasks
     ELSE IF form.id \notin DOMAIN tasks
       THEN /\ last' = Ret("updateTask", caller, form.id, "NotFound",
                           GateSteps(gate) \o <<"read">>, NoOut)
            /\ tasks' = tasks
     ELSE IF session.role = "EMPLOYEE"
       THEN IF employee = NoId
              THEN /\ last' = Ret("updateTask", caller, form.id, "NotFound",
                                  GateSteps(gate) \o <<"read", "read">>, NoOut)
                   /\ tasks' = tasks
            ELSE IF notAssignedTo(tasks[form.id], employee)
              THEN /\ last' = Ret("updateTask", caller, form.id, "Forbidden",
                                  GateSteps(gate) \o <<"read", "read">>, NoOut)
                   /\ tasks' = tasks
            ELSE /\ tasks' = [tasks EXCEPT
                                ![form.id] = employeeTaskData(tasks[form.id], form)]
                 /\ last' = Ret("updateTask", caller, form.id, "ok",
                                GateSteps(gate) \o <<"read", "read", "write">>, NoOut)
     ELSE IF ~taskKeysHold(form.projectId, form.assignedToId)
       THEN /\ last' = Ret("updateTask", caller, form.id, "StorageError",
                           GateSteps(gate) \o <<"read", "write">>, NoOut)
            /\ tasks' = tasks
     ELSE /\ tasks' = [tasks EXCEPT
                         ![form.id] = managerTaskData(tasks[form.id], form)]
          /\ last' = Ret("updateTask", caller, form.id, "ok",
                         GateSteps(gate) \o <<"read", "write">>, NoOut)
  /\ UNCHANGED <<users, employees, projects, salaries>>

\* createTask up to and including project.findUnique.  A call that fails a
\* check returns as createTask does; a call that passes has found its
\* project and has prisma.task.create still to do.
createTask_lookup(caller, form) ==
  LET passes ==
        /\ Gate(caller, "tasks", "create") = "ok"
        /\ form.title # "" /\ form.projectId # NoId /\ form.status # ""
        /\ form.priority # ""
        /\ form.projectId \in DOMAIN projects
  IN
  /\ IF ~passes
       THEN /\ createTask(caller, form)
            /\ inflight' = inflight
     ELSE /\ Cardinality(inflight) < MaxInflight
          /\ inflight' = inflight \cup
               {[op |-> "createTask", caller |-> caller, form |-> form,
                 role |-> auth(caller).role]}
          /\ UNCHANGED <<users, employees, projects, tasks, salaries, last>>
  /\ kanban' = kanban

\* prisma.task.create of a call in flight: the database refuses a row whose
\* project or assignee is no longer there.
createTask_write(call) ==
  LET form == call.form
      steps == <<"session", "permission", "read", "write">>
      newId == FreshId(tasks, TaskIds)
  IN
  /\ call \in inflight
  /\ call.op = "createTask"
  /\ IF ~taskKeysHold(form.projectId, form.assignedToId)
       THEN /\ last' = Ret("createTask", call.caller, form.projectId,
                           "StorageError", steps, NoOut)
            /\ tasks' = tasks
     ELSE /\ newId # NoId
          /\ tasks' = Insert(tasks, newId,
                             [title |-> form.title, description |-> form.description,
                              projectId |-> form.projectId, priority |-> form.priority,
                              status |-> form.status,
                              assignedToId |-> form.assignedToId])
          /\ last' = Ret("createTask", call.caller, form.projectId, "ok",
                         steps, NoOut)
  /\ inflight' = inflight \ {call}
  /\ UNCHANGED <<users, employees, projects, salaries, kanban>>

\* updateTask up to its write: the checks, task.findUnique and, for an
\* EMPLOYEE, the employee lookup and the assignment test.  The projectId
\* of the payload is not looked up.
updateTask_lookup(caller, form) ==
  LET session == auth(caller)
      employee == employeeOfUser(session.id)
      passes ==
        /\ Gate(caller, "tasks", "update") = "ok"
        /\ form.id # NoId /\ form.title # "" /\ form.projectId # NoId
        /\ form.status # "" /\ form.priority # ""
        /\ form.id \in DOMAIN tasks
        /\ session.role = "EMPLOYEE" =>
             employee # NoId /\ ~notAssignedTo(tasks[form.id], employee)
  IN
  /\ IF ~passes
       THEN /\ updateTask(caller, form)
            /\ inflight' = inflight
     ELSE /\ Cardinality(inflight) < MaxInflight
          /\ inflight' = inflight \cup
               {[op |-> "updateTask", caller |-> caller, form |-> form,
                 role |-> session.role]}
          /\ UNCHANGED <<users, employees, projects, tasks, salaries, last>>
  /\ kanban' = kanban

\* prisma.task.update({ where: { id } }) of a call in flight, in the branch
\* its role chose: it throws when the task has been deleted since, and when
\* the database refuses the projectId or assignedToId written.
updateTask_write(call) ==
  LET form == call.form
      steps == <<"session", "permission", "read", "write">>
  IN
  /\ call \in inflight
  /\ call.op = "updateTask"
  /\ IF form.id \notin DOMAIN tasks
       THEN /\ last' = Ret("updateTask", call.caller, form.id, "StorageError",
                           steps, NoOut)
            /\ tasks' = tasks
     ELSE IF call.role = "EMPLOYEE"
       THEN /\ tasks' = [tasks EXCEPT
                           ![form.id] = employeeTaskData(tasks[form.id], form)]
            /\ last' = Ret("updateTask", call.caller, form.id, "ok", steps, NoOut)
     ELSE IF ~taskKeysHold(form.projectId, form.assignedToId)
       THEN /\ last' = Ret("updateTask", call.caller, form.id, "StorageError",
                           steps, NoOut)
            /\ tasks' = tasks
     ELSE /\ tasks' = [tasks EXCEPT
                         ![form.id] = managerTaskData(tasks[form.id], form)]
          /\ last' = Ret("updateTask", call.caller, form.id, "ok", steps, NoOut)
  /\ inflight' = inflight \ {call}
  /\ UNCHANGED <<users, employees, projects, salaries, kanban>>

deleteTask(caller, id) ==
  LET gate == Gate(caller, "tasks", "delete") IN
  /\ IF gate # "ok"
       THEN /\ last' = Ret("deleteTask", caller, id, gate, GateSteps(gate), NoOut)
            /\ tasks' = tasks
     ELSE IF id \notin DOMAIN tasks
       THEN /\ last' = Ret("deleteTask", caller, id, "NotFound",
                           GateSteps(gate) \o <<"read">>, NoOut)
            /\ tasks' = tasks
     ELSE /\ tasks' = Delete(tasks, {id})
          /\ last' = Ret("deleteTask", caller, id, "ok",
                         GateSteps(gate) \o <<"read", "write">>, NoOut)
  /\ UNCHANGED <<users, employees, projects, salaries>>

\* { contains: search, mode: "insensitive" } on a text of the model, which
\* is one letter or empty: every text contains the empty search, and a
\* one-letter text contains a one-letter search when they are equal.
contains(text, search) == search = "" \/ text = search

\* The where clause getTasks builds from its arguments: each filter applies
\* when it is non-empty.
taskWhere(task, filter) ==
  /\ filter.search # "" =>
       contains(task.title, filter.search) \/ contains(task.description, filter.search)
  /\ filter.status # "" => task.status = filter.status
  /\ filter.priority # "" => task.priority = filter.priority
  /\ filter.projectId # NoId => task.projectId = filter.projectId
  /\ filter.assignedToId # NoId => task.assignedToId = filter.assignedToId

\* limit = 10, the default and the value the task list passes
TaskLimit == 10

\* The rows findMany selects with the where clause applied.
taskSelection_Filtered(filter) == {t \in DOMAIN tasks : taskWhere(tasks[t], filter)}

\* prisma.task.findMany({ skip, take, orderBy, include }) and
\* prisma.task.count(): neither call is given the where clause, so both
\* range over every task.
taskSelection(filter) == DOMAIN tasks

\* skip: (page - 1) * limit, take: limit.  The limit exceeds the number of
\* tasks the table holds, so the first page has every selected row and the
\* later pages have none, whatever the order.
taskPage(selected, page, limit) ==
  IF (page - 1) * limit >= Cardinality(selected) THEN {} ELSE selected

getTasks(caller, filter, page) ==
  LET gate == Gate(caller, "tasks", "read")
      selected == taskSelection(filter)
      totalTasks == Cardinality(selected)
  IN
  /\ IF gate # "ok"
       THEN last' = Ret("getTasks", caller, NoId, gate, GateSteps(gate), NoOut)
     ELSE last' = Ret("getTasks", caller, NoId, "ok",
                      GateSteps(gate) \o <<"read", "read">>,
                      [NoOut EXCEPT
                         !.tasks = Rows(tasks, taskPage(selected, page, TaskLimit)),
                         !.total = totalTasks,
                         !.pages = pagesOf(totalTasks, TaskLimit)])
  /\ UNCHANGED <<users, employees, projects, tasks, salaries>>

\* findMany of every employee, for the assignee picker of the task form
getEmployeesForAssignment(caller) ==
  LET gate == Gate(caller, "employees", "read") IN
  /\ IF gate # "ok"
       THEN last' = Ret("getEmployeesForAssignment", caller, NoId, gate,
                        GateSteps(gate), NoOut)
     ELSE last' = Ret("getEmployeesForAssignment", caller, NoId, "ok",
                      GateSteps(gate) \o <<"read">>,
                      [NoOut EXCEPT !.employees = Rows(employees, DOMAIN employees)])
  /\ UNCHANGED <<users, employees, projects, tasks, salaries>>

(***************************************************************************)
(* The tasks page and its Kanban board.  kanban is the state of the one    *)
(* mounted board: the user it was rendered for, the tasks prop the page    *)
(* passed, localTasks (useState(tasks): the prop at mount, then whatever   *)
(* setLocalTasks stored) and the error shown.  inflight holds the server   *)
(* calls that have done their reads and have not yet done their write.     *)
(***************************************************************************)
NoBoard == [mounted |-> FALSE, user |-> NoId, tasks |-> EmptyTable,
            localTasks |-> EmptyTable, error |-> "none"]

\* A step of the server alone: no component state and no call in flight changes.
ServerOnly == UNCHANGED <<kanban, inflight>>

\* The call the page makes: no search, status, priority or project given.
NoTaskFilter ==
  [search |-> "", status |-> "", priority |-> "", projectId |-> NoId,
   assignedToId |-> NoId]

\* tasks || []: the rows of a listing as the tasks prop
tasksProp(rows) == [t \in {r.id : r \in rows} |-> (CHOOSE r \in rows : r.id = t).rec]

\* TasksPage: redirect("/login") without a session; otherwise getTasks
\* with the parameters of the URL and a board rendered with its tasks.
TasksPage(caller) ==
  /\ IF auth(caller) = NoSession
       THEN /\ last' = [Ret("TasksPage", caller, NoId, "Unauthenticated", << >>, NoOut)
                        EXCEPT !.returned = "redirect"]
            /\ kanban' = NoBoard
            /\ UNCHANGED <<users, employees, projects, tasks, salaries>>
     ELSE /\ getTasks(caller, NoTaskFilter, 1)
          /\ kanban' = [mounted |-> TRUE, user |-> caller,
                        tasks |-> tasksProp(last'.out.tasks),
                        localTasks |-> tasksProp(last'.out.tasks),
                        error |-> "none"]
  /\ inflight' = inflight

\* The FormData of a status change: the fields the component holds for the
\* task, with the new status.
statusFormData(task, taskId, status) ==
  [id |-> taskId, title |-> task.title, description |-> task.description,
   projectId |-> task.projectId, priority |-> task.priority, status |-> status,
   assignedToId |-> task.assignedToId]

\* The revert of a failed drag keeping what the board showed before it.
revertedTasks_BeforeDrag(board) == board.localTasks

\* setLocalTasks(tasks): the tasks prop of the render the handler belongs to
revertedTasks(board) == board.tasks

\* KanbanBoard.handleDragEnd for a drop of taskId on the column destination.
\* updateTask revalidates /dashboard/tasks when it succeeds, after which the
\* page may have passed the board a new tasks prop (every task: the page
\* lists with limit 10); localTasks is not derived from the prop again.
handleDragEnd(taskId, destination) ==
  /\ kanban.mounted
  /\ taskId \in DOMAIN kanban.localTasks
  /\ LET task == kanban.localTasks[taskId]
         newTasks == [kanban.localTasks EXCEPT ![taskId].status = destination]
     IN /\ updateTask(kanban.user, statusFormData(task, taskId, destination))
        /\ IF last'.returned # "success"
             THEN kanban' = [kanban EXCEPT !.error = last'.result,
                                           !.localTasks = revertedTasks(kanban)]
           ELSE \E revalidated \in BOOLEAN :
                  kanban' = [kanban EXCEPT
                               !.error = "none",
                               !.localTasks = newTasks,
                               !.tasks = IF revalidated THEN tasks' ELSE @]
  /\ inflight' = inflight

(***************************************************************************)
(* Routes.  A path is the sequence of its segments.  The middleware is     *)
(* withAuth(middleware, { callbacks: { authorized } }) and runs for the    *)
(* paths of config.matcher only: when authorized returns false the request *)
(* is redirected to the sign-in page, otherwise middleware decides.  The   *)
(* page of a request that proceeds is rendered; the user-role management   *)
(* page calls getUsers({ limit: 100 }) to render.                          *)
(***************************************************************************)
DashboardPath == <<"dashboard">>
DashboardAdminPath == <<"dashboard", "admin">>
NewProjectPath == <<"dashboard", "projects", "new">>
UserRolesPath == <<"admin", "user-roles">>
LoginPath == <<"login">>

Paths == {DashboardPath, DashboardAdminPath, NewProjectPath, UserRolesPath,
          LoginPath}

\* matcher: ["/dashboard/:path*"]
matcher(path) == Len(path) >= 1 /\ path[1] = "dashboard"

\* authorized: ({ token }) => !!token
authorized(token) == token # NoSession

\* function middleware(req): the role tests are commented out
middleware(token, path) == "next"

request(caller, path) ==
  LET token == auth(caller)
      outcome == IF ~matcher(path) THEN "next"
                 ELSE IF ~authorized(token) THEN "redirect"
                 ELSE middleware(token, path)
  IN
  /\ IF outcome = "next" /\ path = UserRolesPath
       THEN last' = [Ret("request", caller, path, "ok", <<"read", "read">>,
                         [NoOut EXCEPT !.users = {UserRow(u) : u \in DOMAIN users}])
                     EXCEPT !.returned = "served"]
     ELSE IF outcome = "next"
       THEN last' = [Ret("request", caller, path, "ok", << >>, NoOut)
                     EXCEPT !.returned = "served"]
     ELSE last' = [Ret("request", caller, path, "Unauthenticated", << >>, NoOut)
                   EXCEPT !.returned = "redirect"]
  /\ UNCHANGED <<users, employees, projects, tasks, salaries>>

(***************************************************************************)
(* The permission check on its own, as the pages and actions call it.      *)
(***************************************************************************)
CheckPermission(role, resource, action) ==
  /\ last' = [op |-> "hasPermission", caller |-> NoId, role |-> role,
              target |-> <<resource, action>>,
              result |-> IF permissionThrows(role, resource) THEN "TypeError"
                         ELSE IF hasPermission(role, resource, action) THEN "true"
                         ELSE "false",
              steps |-> << >>, out |-> NoOut, old |-> "NONE",
              returned |-> IF permissionThrows(role, resource) THEN "uncaught"
                           ELSE "value"]
  /\ UNCHANGED <<users, employees, projects, tasks, salaries>>

(***************************************************************************)
(* Inputs.                                                                 *)
(***************************************************************************)
Texts == {"A", "B"}

Statuses == {"TODO", "DONE"}

Priorities == {"LOW", "HIGH"}

RegisterData ==
  [name : {"Ann", ""}, email : UserIds \cup {NoId}, password : {"password", ""}]

\* A role argument is a string at run time, whatever its declared type.
RoleArgs == ROLES \cup {"USER"}

EmployeeForms ==
  [userId : UserIds \cup {NoId}, position : {"A"}, department : {"A"},
   joinDate : {"2024-01-01"}, baseSalary : {100, NaN}]

EmployeeUpdateForms ==
  [id : EmpIds, position : Texts \cup {""}, department : Texts]

Nows == {[month |-> 1, year |-> 2025]}

SalaryForms ==
  [employeeId : EmpIds, month : {1, 13}, year : {2025}, baseSalary : {100},
   bonus : {0, 10}, deductions : {0}]

ProjectForms ==
  [name : {"A", ""}, status : {"PLANNING"}, startDate : {"2024-01-01"}]

\* Salary forms for one month of one year.
MonthSalaryForms ==
  [employeeId : EmpIds, month : {1}, year : {2025}, baseSalary : {100},
   bonus : {10}, deductions : {0}]

\* Salary forms around the limits of the month and the year, with and
\* without a bonus and deductions that parse.
RangeSalaryForms ==
  [employeeId : {1}, month : {0, 1, 12, 13}, year : {1999, 2025, 2101},
   baseSalary : {100}, bonus : {10, NaN}, deductions : {5}]

\* The arguments of a project listing; the search text is left empty.
ProjectFilters == [search : {""}, status : {"", "PLANNING", "COMPLETED"}]

ProjectUpdateForms ==
  [id : ProjIds \cup {NoId}, name : {"B", ""}, status : {"COMPLETED"},
   startDate : {"2024-01-01"}]

\* The title, description and priority a task form carries: two full
\* contents that differ in every field, and one with the title left empty.
TaskContents ==
  {[title |-> "A", description |-> "A", priority |-> "LOW"],
   [title |-> "B", description |-> "B", priority |-> "HIGH"],
   [title |-> "", description |-> "A", priority |-> "LOW"]}

TaskForm(id, c, projectId, status, assignedToId) ==
  [id |-> id, title |-> c.title, description |-> c.description,
   projectId |-> projectId, priority |-> c.priority, status |-> status,
   assignedToId |-> assignedToId]

TaskForms ==
  {TaskForm(NoId, c, p, "TODO", e) :
     c \in {c \in TaskContents : c.title # "B"}, p \in ProjIds,
     e \in EmpIds \cup {NoId}}

TaskUpdateForms ==
  {TaskForm(t, c, p, st, e) :
     t \in TaskIds, c \in TaskContents, p \in ProjIds, st \in Statuses,
     e \in EmpIds \cup {NoId}}

\* What another caller writes to a task while a board shows it.
BoardTaskForms ==
  {TaskForm(t, c, p, "TODO", NoId) :
     t \in TaskIds, c \in {c \in TaskContents : c.title # ""}, p \in {1}}

\* Task forms that differ in the project they name.
ProjectTaskForms ==
  {TaskForm(t, c, p, "TODO", NoId) :
     t \in TaskIds \cup {NoId}, c \in {c \in TaskContents : c.title = "A"},
     p \in ProjIds}

\* The arguments of a task listing: the search text, the status, priority,
\* project and assignee filters (empty when not given), and the page.
TaskFilters ==
  [search : {"", "B"}, status : {"", "DONE"}, priority : {"", "HIGH"},
   projectId : {NoId} \cup ProjIds, assignedToId : {NoId}]

TaskPages == {1, 2}

(***************************************************************************)
(* The system: any set of registered users with any roles, empty tables.   *)
(***************************************************************************)
NoCall == [op |-> "none", caller |-> NoId, role |-> "NONE", target |-> NoId,
           result |-> "none", steps |-> << >>, out |-> NoOut, old |-> "NONE",
           returned |-> "none"]

Init ==
  /\ users \in UNION {[S -> ROLES] : S \in SUBSET UserIds}
  /\ employees = EmptyTable
  /\ projects = EmptyTable
  /\ tasks = EmptyTable
  /\ salaries = EmptyTable
  /\ last = NoCall
  /\ kanban = NoBoard
  /\ inflight = {}

Next ==
  \/ \E caller \in Callers, path \in Paths : request(caller, path) /\ ServerOnly
  \/ \E caller \in Callers, data \in RegisterData : registerUser(caller, data) /\ ServerOnly
  \/ \E caller \in Callers : searchEmployees(caller) /\ ServerOnly
  \/ \E caller \in Callers : getUsers(caller) /\ ServerOnly
  \/ \E caller \in Callers, u \in UserIds, r \in ROLES : updateUserRole(caller, u, r) /\ ServerOnly
  \/ \E caller \in Callers, u \in UserIds \cup {NoId}, r \in ROLES \cup {"", "USER"} : POST(caller, u, r) /\ ServerOnly
  \/ \E caller \in Callers : getEmployees(caller) /\ ServerOnly
  \/ \E caller \in Callers, id \in EmpIds : getEmployeeById(caller, id) /\ ServerOnly
  \/ \E caller \in Callers, form \in EmployeeForms, now \in Nows : createEmployee(caller, form, now) /\ ServerOnly
  \/ \E caller \in Callers, form \in EmployeeUpdateForms : updateEmployee(caller, form) /\ ServerOnly
  \/ \E caller \in Callers, id \in EmpIds : deleteEmployee(caller, id) /\ ServerOnly
  \/ \E caller \in Callers, id \in EmpIds, year \in {NoId, 2025} : getEmployeeSalaries(caller, id, year) /\ ServerOnly
  \/ \E caller \in Callers, form \in SalaryForms : saveSalaryRecord(caller, form) /\ ServerOnly
  \/ \E caller \in Callers, id \in SalIds : deleteSalaryRecord(caller, id) /\ ServerOnly
  \/ \E caller \in Callers, form \in ProjectForms : createProject(caller, form) /\ ServerOnly
  \/ \E caller \in Callers, id \in ProjIds : deleteProject(caller, id) /\ ServerOnly
  \/ \E caller \in Callers, id \in TaskIds : getTaskById(caller, id) /\ ServerOnly
  \/ \E caller \in Callers, form \in TaskForms : createTask(caller, form) /\ ServerOnly
  \/ \E caller \in Callers, form \in TaskUpdateForms : updateTask(caller, form) /\ ServerOnly
  \/ \E caller \in Callers, id \in TaskIds : deleteTask(caller, id) /\ ServerOnly
  \/ \E caller \in Callers, filter \in TaskFilters, page \in TaskPages :
       getTasks(caller, filter, page) /\ ServerOnly
  \/ \E caller \in Callers : getEmployeesForAssignment(caller) /\ ServerOnly
  \/ \E caller \in Callers, filter \in ProjectFilters : getProjects(caller, filter) /\ ServerOnly
  \/ \E caller \in Callers, id \in ProjIds : getProjectById(caller, id) /\ ServerOnly
  \/ \E caller \in Callers, form \in ProjectUpdateForms : updateProject(caller, form) /\ ServerOnly
  \/ \E caller \in Callers : TasksPage(caller)
  \/ \E taskId \in TaskIds, destination \in Statuses : handleDragEnd(taskId, destination)
  \/ \E caller \in Callers, form \in MonthSalaryForms : saveSalaryRecord_lookup(caller, form)
  \/ \E call \in inflight : saveSalaryRecord_write(call)
  \/ \E caller \in Callers, form \in EmployeeForms : createEmployee_employee(caller, form)
  \/ \E call \in inflight, now \in Nows : createEmployee_salary(call, now)
  \/ \E caller \in Callers, form \in TaskForms : createTask_lookup(caller, form)
  \/ \E call \in inflight : createTask_write(call)
  \/ \E caller \in Callers, form \in TaskUpdateForms : updateTask_lookup(caller, form)
  \/ \E call \in inflight : updateTask_write(call)

Spec == Init /\ [][Next]_vars

PermRoles == ROLES \cup {"USER"}

PermResources == Resources \cup {"reports"}

PermActions == Actions \cup {"approve"}

NextPerm ==
  \/ \E role \in PermRoles, resource \in PermResources, action \in PermActions :
       CheckPermission(role, resource, action) /\ ServerOnly

SpecPerm == Init /\ [][NextPerm]_vars

(***************************************************************************)
(* Parts of the system, each with the actions its properties are about.    *)
(***************************************************************************)
\* user administration and the permission check of createProject
NextUsers ==
  \/ \E caller \in Callers : getUsers(caller) /\ ServerOnly
  \/ \E caller \in Callers, u \in UserIds, r \in ROLES : updateUserRole(caller, u, r) /\ ServerOnly
  \/ \E caller \in Callers, u \in UserIds \cup {NoId}, r \in ROLES \cup {"", "USER"} : POST(caller, u, r) /\ ServerOnly
  \/ \E caller \in Callers : getEmployees(caller) /\ ServerOnly
  \/ \E caller \in Callers, form \in ProjectForms : createProject(caller, form) /\ ServerOnly
  \/ \E caller \in Callers, id \in ProjIds : deleteProject(caller, id) /\ ServerOnly

SpecUsers == Init /\ [][NextUsers]_vars

\* employees and their salaries
NextEmployees ==
  \/ \E caller \in Callers, id \in EmpIds : getEmployeeById(caller, id) /\ ServerOnly
  \/ \E caller \in Callers, form \in EmployeeForms, now \in Nows : createEmployee(caller, form, now) /\ ServerOnly
  \/ \E caller \in Callers, id \in EmpIds : deleteEmployee(caller, id) /\ ServerOnly
  \/ \E caller \in Callers, id \in EmpIds, year \in {NoId, 2025} : getEmployeeSalaries(caller, id, year) /\ ServerOnly
  \/ \E caller \in Callers, form \in SalaryForms : saveSalaryRecord(caller, form) /\ ServerOnly
  \/ \E caller \in Callers, id \in SalIds : deleteSalaryRecord(caller, id) /\ ServerOnly

SpecEmployees == Init /\ [][NextEmployees]_vars

\* tasks, with the employees and projects they refer to
NextTasks ==
  \/ \E caller \in Callers, form \in EmployeeForms, now \in Nows : createEmployee(caller, form, now) /\ ServerOnly
  \/ \E caller \in Callers, form \in ProjectForms : createProject(caller, form) /\ ServerOnly
  \/ \E caller \in Callers, id \in TaskIds : getTaskById(caller, id) /\ ServerOnly
  \/ \E caller \in Callers, form \in TaskForms : createTask(caller, form) /\ ServerOnly
  \/ \E caller \in Callers, form \in TaskUpdateForms : updateTask(caller, form) /\ ServerOnly
  \/ \E caller \in Callers, id \in TaskIds : deleteTask(caller, id) /\ ServerOnly

SpecTasks == Init /\ [][NextTasks]_vars

(***************************************************************************)
(* Properties.                                                             *)
(***************************************************************************)
IsError(result) == result \notin {"ok", "none", "true", "false"}

StorageSteps == {"read", "write"}

\* the storage operations of the last call come after both checks
StorageAfterChecks(steps) ==
  \A i \in 1..Len(steps) :
    steps[i] \in StorageSteps =>
      /\ \E j \in 1..(i - 1) : steps[j] = "session"
      /\ \E j \in 1..(i - 1) : steps[j] = "permission"

TouchesStorage(steps) == \E i \in 1..Len(steps) : steps[i] \in StorageSteps

\* The authoritative matrix of the specification (C, R, U, D).
C == "create"
R == "read"
U == "update"
D == "delete"

Matrix(role, resource) ==
  CASE role = "ADMIN" -> {C, R, U, D}
    [] role = "MANAGER" ->
         (CASE resource \in {"users", "employees"} -> {R}
            [] resource \in {"projects", "tasks"} -> {C, R, U, D}
            [] resource = "salaries" -> {R, U})
    [] role = "EMPLOYEE" ->
         (CASE resource = "users" -> {}
            [] resource \in {"employees", "projects", "salaries"} -> {R}
            [] resource = "tasks" -> {R, U})

\* C1: for each of the 60 (role, resource, action) cases, hasPermission
\* answers true exactly when the action is in the authoritative matrix.
C1_MatrixExact ==
  (/\ last.op = "hasPermission"
   /\ last.role \in ROLES
   /\ last.target[1] \in Resources
   /\ last.target[2] \in Actions)
  => /\ last.result \in {"true", "false"}
     /\ last.result = "true" <=> last.target[2] \in Matrix(last.role, last.target[1])

C1_Witness ==
  /\ last.op = "hasPermission"
  /\ last.role = "MANAGER"
  /\ last.target = <<"salaries", "delete">>
  /\ last.result = "false"

\* C2: in every server action, no storage operation is performed before the
\* caller's identity is resolved and hasPermission has returned true; a call
\* without the permission performs no storage operation.
C2_NoStorageBeforeChecks ==
  last.op \notin {"none", "hasPermission", "POST"} => StorageAfterChecks(last.steps)

\* C3: every change of a stored User.role is triggered by a caller
\* authenticated with role ADMIN.
C3_RoleChangeOnlyByAdmin ==
  [][(\E u \in DOMAIN users : u \in DOMAIN users' /\ users'[u] # users[u])
       => last'.role = "ADMIN"]_vars

\* C4: a call with no authenticated session ends Unauthenticated, touches no
\* storage and returns no rows and no successful result.
C4_AnonymousRejected ==
  (last.op \notin {"none", "hasPermission"} /\ last.caller = NoId)
  => /\ last.result = "Unauthenticated"
     /\ ~TouchesStorage(last.steps)
     /\ last.out = NoOut

\* an ADMIN caller has just changed user u from EMPLOYEE to MANAGER
PromotedByAdmin(u) ==
  /\ last'.op \in {"updateUserRole", "POST"}
  /\ last'.role = "ADMIN"
  /\ last'.target = u
  /\ users[u] = "EMPLOYEE"
  /\ users'[u] = "MANAGER"

EmployeeUpdatesTask ==
  /\ last'.op = "updateTask"
  /\ last'.role = "EMPLOYEE"
  /\ last'.target \in DOMAIN tasks

\* ... and the task was assigned to the caller's own employee record
OwnTask ==
  /\ employeeOfUser(last'.caller) # NoId
  /\ tasks[last'.target].assignedToId = employeeOfUser(last'.caller)

NotAssignee ==
  \/ employeeOfUser(last'.caller) = NoId
  \/ tasks[last'.target].assignedToId # employeeOfUser(last'.caller)

\* C6 as stated: updateTask by an EMPLOYEE who is not the assignee returns a
\* Forbidden error and leaves the task as stored, for every payload.
C6_NonAssigneeForbidden ==
  [][(EmployeeUpdatesTask /\ NotAssignee) =>
       /\ last'.result = "Forbidden"
       /\ tasks' = tasks]_vars

ValidTaskForm(form) ==
  /\ form.id # NoId /\ form.title # "" /\ form.projectId # NoId
  /\ form.status # "" /\ form.priority # ""

\* C6 amended: updateTask by an EMPLOYEE who is not the assignee returns an
\* error and leaves every task as stored, for every payload; the error is the
\* Forbidden one when the payload passes validation and the caller has an
\* employee record, the validation error when a required field is empty,
\* and "Employee record not found" when the caller has no employee record.
C6_NonAssigneeRejected ==
  [][(EmployeeUpdatesTask /\ NotAssignee) =>
       /\ last'.result \in {"Forbidden", "Invalid", "NotFound"}
       /\ tasks' = tasks
       /\ \A form \in TaskUpdateForms :
            updateTask(last'.caller, form) =>
              last'.result =
                IF ~ValidTaskForm(form) THEN "Invalid"
                ELSE IF employeeOfUser(last'.caller) = NoId THEN "NotFound"
                ELSE "Forbidden"]_vars

C6_Witness ==
  /\ last.op = "updateTask"
  /\ last.role = "EMPLOYEE"
  /\ last.result = "Forbidden"
  /\ last.target \in DOMAIN tasks
  /\ employeeOfUser(last.caller) # NoId
  /\ tasks[last.target].assignedToId \notin {NoId, employeeOfUser(last.caller)}

\* C7: getEmployeeById returns an existing record to an ADMIN or MANAGER,
\* and to an EMPLOYEE exactly when the record's userId is the caller's id;
\* an EMPLOYEE asking for another user's record gets an error and no rows.
C7_EmployeeRecordScope ==
  (last.op = "getEmployeeById" /\ last.target \in DOMAIN employees)
  => LET e == last.target
         full == [NoOut EXCEPT
                    !.employees = {Row(employees, e)},
                    !.salaries = Rows(salaries, salariesOf(e))]
     IN
     /\ last.role \in {"ADMIN", "MANAGER"} =>
          last.result = "ok" /\ last.out = full
     /\ last.role = "EMPLOYEE" =>
          /\ last.result = "ok" <=> employees[e].userId = last.caller
          /\ employees[e].userId = last.caller => last.out = full
          /\ employees[e].userId # last.caller =>
               IsError(last.result) /\ last.out = NoOut

C7_Witness ==
  /\ last.op = "getEmployeeById"
  /\ last.role = "EMPLOYEE"
  /\ last.target \in DOMAIN employees
  /\ employees[last.target].userId # last.caller
  /\ salariesOf(last.target) # {}
  /\ last.result = "Forbidden"

\* C8: getEmployeeSalaries returns salary rows to an EMPLOYEE only when the
\* requested employee's userId is the caller's id; ADMIN and MANAGER are not
\* narrowed; on a mismatch the call returns an error and no rows.
C8_SalaryScope ==
  (last.op = "getEmployeeSalaries" /\ last.target \in DOMAIN employees)
  => LET e == last.target
         own == employees[e].userId = last.caller
     IN
     /\ (last.role \in {"ADMIN", "MANAGER"} \/ (last.role = "EMPLOYEE" /\ own)) =>
          /\ last.result = "ok"
          /\ last.out.salaries \subseteq Rows(salaries, salariesOf(e))
          /\ last.out.years = {salaries[s].year : s \in salariesOf(e)}
     /\ (last.role = "EMPLOYEE" /\ ~own) =>
          IsError(last.result) /\ last.out = NoOut

C8_Witness ==
  /\ last.op = "getEmployeeSalaries"
  /\ last.role = "EMPLOYEE"
  /\ last.target \in DOMAIN employees
  /\ employees[last.target].userId # last.caller
  /\ salariesOf(last.target) # {}
  /\ last.result = "Forbidden"

\* C9: deleteSalaryRecord removes an existing record for an ADMIN, returns
\* an error and removes nothing for a MANAGER or an EMPLOYEE, and accepts a
\* role exactly when hasPermission(role, "salaries", "delete").
C9_SalaryDeleteAdminOnly ==
  [][(last'.op = "deleteSalaryRecord" /\ last'.role \in ROLES) =>
       /\ (last'.role = "ADMIN" /\ last'.target \in DOMAIN salaries) =>
            /\ last'.result = "ok"
            /\ salaries' = Delete(salaries, {last'.target})
       /\ last'.role \in {"MANAGER", "EMPLOYEE"} =>
            /\ IsError(last'.result)
            /\ salaries' = salaries
       /\ last'.result # "Forbidden"
            <=> hasPermission(last'.role, "salaries", "delete")]_vars

C9_Witness ==
  /\ last.op = "deleteSalaryRecord"
  /\ last.role = "MANAGER"
  /\ last.target \in DOMAIN salaries
  /\ last.result = "Forbidden"

(***************************************************************************)
(* Deleting records.                                                       *)
(***************************************************************************)
\* the four delete actions, with the actions that create what they delete
NextDeletes ==
  \/ \E caller \in Callers, form \in EmployeeForms, now \in Nows :
       createEmployee(caller, form, now) /\ ServerOnly
  \/ \E caller \in Callers, form \in ProjectForms : createProject(caller, form) /\ ServerOnly
  \/ \E caller \in Callers, form \in TaskForms : createTask(caller, form) /\ ServerOnly
  \/ \E caller \in Callers, id \in EmpIds : deleteEmployee(caller, id) /\ ServerOnly
  \/ \E caller \in Callers, id \in ProjIds : deleteProject(caller, id) /\ ServerOnly
  \/ \E caller \in Callers, id \in SalIds : deleteSalaryRecord(caller, id) /\ ServerOnly
  \/ \E caller \in Callers, id \in TaskIds : deleteTask(caller, id) /\ ServerOnly

SpecDeletes == Init /\ [][NextDeletes]_vars

DeleteOps == {"deleteEmployee", "deleteProject", "deleteSalaryRecord", "deleteTask"}

\* C11: a delete action called by an EMPLOYEE returns the permission
\* error, removes no record of any table, and is rejected before any
\* storage lookup (the rejection follows the session lookup directly),
\* whatever the target id and whether or not the target exists.
C11_EmployeeNeverDeletes ==
  [][(last'.op \in DeleteOps /\ last'.role = "EMPLOYEE") =>
       /\ last'.result = "Forbidden"
       /\ last'.steps = <<"session">>
       /\ ~TouchesStorage(last'.steps)
       /\ UNCHANGED <<users, employees, projects, tasks, salaries>>]_vars

\* An EMPLOYEE asked to delete a project that exists, and was refused.
C11_Witness ==
  /\ last.op = "deleteProject"
  /\ last.role = "EMPLOYEE"
  /\ last.target \in DOMAIN projects
  /\ last.result = "Forbidden"
  /\ tasksOf(last.target) # {}
  /\ \E e \in DOMAIN employees : employees[e].userId = last.caller

(***************************************************************************)
(* The roles stored.                                                       *)
(***************************************************************************)
\* the three writers of User.role, and an action that checks a permission
NextRoles ==
  \/ \E caller \in Callers, data \in RegisterData : registerUser(caller, data) /\ ServerOnly
  \/ \E caller \in Callers, u \in UserIds, r \in RoleArgs : updateUserRole(caller, u, r) /\ ServerOnly
  \/ \E caller \in Callers, u \in UserIds \cup {NoId}, r \in RoleArgs \cup {""} :
       POST(caller, u, r) /\ ServerOnly
  \/ \E caller \in Callers : getEmployees(caller) /\ ServerOnly

SpecRoles == Init /\ [][NextRoles]_vars

ReferenceSalaryForms == {form \in SalaryForms : form.bonus = 0}

ReferenceTaskForms ==
  {form \in TaskUpdateForms : form.status = "TODO" /\ form.title # "B"}

\* the actions that write Employee, Salary and Task rows
NextReferences ==
  \/ \E caller \in Callers, form \in EmployeeForms, now \in Nows :
       createEmployee(caller, form, now) /\ ServerOnly
  \/ \E caller \in Callers, id \in EmpIds : deleteEmployee(caller, id) /\ ServerOnly
  \/ \E caller \in Callers, form \in ReferenceSalaryForms :
       saveSalaryRecord(caller, form) /\ ServerOnly
  \/ \E caller \in Callers, form \in ProjectForms : createProject(caller, form) /\ ServerOnly
  \/ \E caller \in Callers, form \in TaskForms : createTask(caller, form) /\ ServerOnly
  \/ \E caller \in Callers, form \in ReferenceTaskForms : updateTask(caller, form) /\ ServerOnly

SpecReferences == Init /\ [][NextReferences]_vars

\* C13: every Salary.employeeId names an Employee, every Employee.userId
\* names a User, and every Task.assignedToId is null or names an Employee.
C13_OwnersResolvable ==
  /\ \A s \in DOMAIN salaries : salaries[s].employeeId \in DOMAIN employees
  /\ \A e \in DOMAIN employees : employees[e].userId \in DOMAIN users
  /\ \A t \in DOMAIN tasks :
       tasks[t].assignedToId = NoId \/ tasks[t].assignedToId \in DOMAIN employees

\* An employee was deleted while another employee, with a salary, and an
\* unassigned task remain.
C13_Witness ==
  /\ last.op = "deleteEmployee"
  /\ last.result = "ok"
  /\ last.target \notin DOMAIN employees
  /\ salariesOf(last.target) = {}
  /\ \E t \in DOMAIN tasks : tasks[t].assignedToId = NoId
  /\ \E s \in DOMAIN salaries : salaries[s].employeeId \in DOMAIN employees

(***************************************************************************)
(* Values outside the enumerations.                                        *)
(***************************************************************************)
\* C14: hasPermission called with a resource that is none of the five
\* kinds, or with an action that is none of the four, raises an error.
C14_UnknownInputRaises ==
  (/\ last.op = "hasPermission"
   /\ last.target[1] \notin Resources \/ last.target[2] \notin Actions)
    => last.result = "TypeError"

(***************************************************************************)
(* The scope of an EMPLOYEE: own employee record, own salaries, own tasks. *)
(***************************************************************************)
\* the scoped reads and updates, with the actions that create their targets
NextScope ==
  \/ \E caller \in Callers, form \in EmployeeForms, now \in Nows :
       createEmployee(caller, form, now) /\ ServerOnly
  \/ \E caller \in Callers, form \in ProjectForms : createProject(caller, form) /\ ServerOnly
  \/ \E caller \in Callers, form \in TaskForms : createTask(caller, form) /\ ServerOnly
  \/ \E caller \in Callers, id \in EmpIds : getEmployeeById(caller, id) /\ ServerOnly
  \/ \E caller \in Callers, id \in EmpIds, year \in {NoId, 2025} :
       getEmployeeSalaries(caller, id, year) /\ ServerOnly
  \/ \E caller \in Callers, form \in TaskUpdateForms : updateTask(caller, form) /\ ServerOnly

SpecScope == Init /\ [][NextScope]_vars

ScopedReads == {"getEmployeeById", "getEmployeeSalaries"}

\* call is a scoped call by an EMPLOYEE for a record that is not the
\* caller's own: an employee id that names no record or another user's
\* record, a task id that names no task or a task not assigned to the
\* caller's employee record.
Unauthorized(call) ==
  /\ call.role = "EMPLOYEE"
  /\ \/ /\ call.op \in ScopedReads
        /\ \/ call.target \notin DOMAIN employees
           \/ employees[call.target].userId # call.caller
     \/ /\ call.op = "updateTask"
        /\ \/ call.target \notin DOMAIN tasks
           \/ employeeOfUser(call.caller) = NoId
           \/ tasks[call.target].assignedToId # employeeOfUser(call.caller)

\* C15 as stated: the outcome of an unauthorized call does not depend on
\* whether a record with the id exists: two unauthorized calls of the same
\* action by the same caller, one after the other, with complete payloads,
\* have the same outcome whatever ids they name.
C15_OutcomeHidesExistence ==
  [][(/\ Unauthorized(last) /\ Unauthorized(last')
      /\ last'.op = last.op /\ last'.caller = last.caller
      /\ last.result # "Invalid" /\ last'.result # "Invalid")
       => last'.result = last.result]_vars

\* C15 amended: an unauthorized call returns an error and no rows and
\* writes nothing, and existence is checked first: a scoped read answers
\* "not found" when no record has the id and the permission error when the
\* record is another user's; updateTask answers the validation error for
\* an incomplete payload, then "not found" when no task has the id, then
\* "not found" when the caller has no employee record, then the
\* permission error.
C15_ExistenceCheckedFirst ==
  [][Unauthorized(last') =>
       /\ UNCHANGED <<users, employees, projects, tasks, salaries>>
       /\ last'.out = NoOut
       /\ last'.op \in ScopedReads =>
            last'.result = IF last'.target \in DOMAIN employees
                             THEN "Forbidden" ELSE "NotFound"
       /\ last'.op = "updateTask" =>
            \A form \in TaskUpdateForms :
              updateTask(last'.caller, form) =>
                last'.result =
                  IF ~ValidTaskForm(form) THEN "Invalid"
                  ELSE IF form.id \notin DOMAIN tasks THEN "NotFound"
                  ELSE IF employeeOfUser(last'.caller) = NoId THEN "NotFound"
                  ELSE "Forbidden"]_vars

\* An EMPLOYEE asked for the salaries of an id that names no employee,
\* while another user's employee record exists.
C15_Witness ==
  /\ last.op = "getEmployeeSalaries"
  /\ last.role = "EMPLOYEE"
  /\ last.target \notin DOMAIN employees
  /\ last.result = "NotFound"
  /\ \E e \in DOMAIN employees : employees[e].userId # last.caller

(***************************************************************************)
(* The employee directory.                                                 *)
(***************************************************************************)
\* listing and updating employees, with the action that creates them
NextDirectory ==
  \/ \E caller \in Callers, form \in EmployeeForms, now \in Nows :
       createEmployee(caller, form, now) /\ ServerOnly
  \/ \E caller \in Callers : getEmployees(caller) /\ ServerOnly
  \/ \E caller \in Callers : searchEmployees(caller) /\ ServerOnly
  \/ \E caller \in Callers, form \in EmployeeUpdateForms : updateEmployee(caller, form) /\ ServerOnly

SpecDirectory == Init /\ [][NextDirectory]_vars

\* C16: getEmployees and searchEmployees return every employee record to
\* an EMPLOYEE caller, those of other users included; updateEmployee by an
\* EMPLOYEE on a record owned by another user returns an error and leaves
\* every employee record, its position and department, as stored.
C16_DirectoryOpenUpdateClosed ==
  [][last'.role = "EMPLOYEE" =>
       /\ last'.op \in {"getEmployees", "searchEmployees"} =>
            /\ last'.result = "ok"
            /\ last'.out.employees = Rows(employees, DOMAIN employees)
       /\ (/\ last'.op = "updateEmployee"
           /\ last'.target \in DOMAIN employees
           /\ employees[last'.target].userId # last'.caller) =>
            /\ IsError(last'.result)
            /\ employees' = employees]_vars

\* An EMPLOYEE who has an employee record asked to update the record of
\* another user and was refused.
C16_Witness ==
  /\ last.op = "updateEmployee"
  /\ last.role = "EMPLOYEE"
  /\ last.target \in DOMAIN employees
  /\ employees[last.target].userId # last.caller
  /\ employeeOfUser(last.caller) # NoId
  /\ IsError(last.result)

(***************************************************************************)
(* Every entry point on a seeded database, one call each.                  *)
(***************************************************************************)
\* A database the actions can build: user 1 has employee record 1 with one
\* salary, and task 1 of project 1 is assigned to that employee.
SeededEmployees ==
  1 :> [userId |-> 1, position |-> "A", department |-> "A",
        joinDate |-> "2024-01-01"]

SeededSalaries ==
  1 :> [employeeId |-> 1, month |-> 1, year |-> 2025, baseSalary |-> 100,
        bonus |-> 0, deductions |-> 0, totalSalary |-> 100]

SeededProjects ==
  1 :> [name |-> "A", status |-> "PLANNING", startDate |-> "2024-01-01"]

SeededTasks ==
  1 :> [title |-> "A", description |-> "A", projectId |-> 1,
        priority |-> "LOW", status |-> "TODO", assignedToId |-> 1]

InitCalls ==
  /\ users \in UNION {[S -> ROLES] : S \in SUBSET UserIds}
  /\ \E seeded \in BOOLEAN :
       IF seeded /\ 1 \in DOMAIN users
         THEN /\ employees = SeededEmployees
              /\ salaries = SeededSalaries
              /\ projects = SeededProjects
              /\ tasks = SeededTasks
         ELSE /\ employees = EmptyTable
              /\ salaries = EmptyTable
              /\ projects = EmptyTable
              /\ tasks = EmptyTable
  /\ last = NoCall
  /\ kanban = NoBoard
  /\ inflight = {}

\* one call of any server action or of the role-update route
NextCalls ==
  \/ \E caller \in Callers, data \in RegisterData :
       last = NoCall /\ registerUser(caller, data) /\ ServerOnly
  \/ \E caller \in Callers : last = NoCall /\ getUsers(caller) /\ ServerOnly
  \/ \E caller \in Callers, u \in UserIds, r \in RoleArgs :
       last = NoCall /\ updateUserRole(caller, u, r) /\ ServerOnly
  \/ \E caller \in Callers, u \in UserIds \cup {NoId}, r \in RoleArgs \cup {""} :
       last = NoCall /\ POST(caller, u, r) /\ ServerOnly
  \/ \E caller \in Callers : last = NoCall /\ getEmployees(caller) /\ ServerOnly
  \/ \E caller \in Callers : last = NoCall /\ searchEmployees(caller) /\ ServerOnly
  \/ \E caller \in Callers, id \in EmpIds :
       last = NoCall /\ getEmployeeById(caller, id) /\ ServerOnly
  \/ \E caller \in Callers, form \in EmployeeForms, now \in Nows :
       last = NoCall /\ createEmployee(caller, form, now) /\ ServerOnly
  \/ \E caller \in Callers, form \in EmployeeUpdateForms :
       last = NoCall /\ updateEmployee(caller, form) /\ ServerOnly
  \/ \E caller \in Callers, id \in EmpIds :
       last = NoCall /\ deleteEmployee(caller, id) /\ ServerOnly
  \/ \E caller \in Callers, id \in EmpIds, year \in {NoId, 2025} :
       last = NoCall /\ getEmployeeSalaries(caller, id, year) /\ ServerOnly
  \/ \E caller \in Callers, form \in SalaryForms :
       last = NoCall /\ saveSalaryRecord(caller, form) /\ ServerOnly
  \/ \E caller \in Callers, id \in SalIds :
       last = NoCall /\ deleteSalaryRecord(caller, id) /\ ServerOnly
  \/ \E caller \in Callers, form \in ProjectForms :
       last = NoCall /\ createProject(caller, form) /\ ServerOnly
  \/ \E caller \in Callers, id \in ProjIds :
       last = NoCall /\ deleteProject(caller, id) /\ ServerOnly
  \/ \E caller \in Callers, id \in TaskIds :
       last = NoCall /\ getTaskById(caller, id) /\ ServerOnly
  \/ \E caller \in Callers, form \in TaskForms :
       last = NoCall /\ createTask(caller, form) /\ ServerOnly
  \/ \E caller \in Callers, form \in TaskUpdateForms :
       last = NoCall /\ updateTask(caller, form) /\ ServerOnly
  \/ \E caller \in Callers, id \in TaskIds :
       last = NoCall /\ deleteTask(caller, id) /\ ServerOnly

SpecCalls == InitCalls /\ [][NextCalls]_vars

NextRoutes ==
  \/ \E caller \in Callers, path \in Paths : request(caller, path) /\ ServerOnly

SpecRoutes == Init /\ [][NextRoutes]_vars

\* the pages for administrators
AdminPaths == {DashboardAdminPath, UserRolesPath}

\* C18: a request for a dashboard path without a token does not proceed,
\* and a request for an administrator page by a caller without a session
\* or with a role other than ADMIN is redirected, not served.
C18_RoutesProtectedByRole ==
  last.op = "request" =>
    /\ (matcher(last.target) /\ last.caller = NoId) => last.returned = "redirect"
    /\ (last.target \in AdminPaths /\ last.role # "ADMIN") =>
         last.returned = "redirect"

(***************************************************************************)
(* Unassigned tasks.                                                       *)
(***************************************************************************)
\* updateTask by an EMPLOYEE who has an employee record, on a task that
\* is assigned to nobody
EmployeeUpdatesUnassignedTask ==
  /\ EmployeeUpdatesTask
  /\ employeeOfUser(last'.caller) # NoId
  /\ tasks[last'.target].assignedToId = NoId

\* C19 as stated: updateTask by an EMPLOYEE on a task whose assignedToId is
\* null is not rejected by the ownership guard.
C19_UnassignedTaskOpen ==
  [][EmployeeUpdatesUnassignedTask => last'.result # "Forbidden"]_vars

\* C19 amended: updateTask by an EMPLOYEE on a task whose assignedToId is
\* null is rejected like any task not assigned to the caller: a complete
\* payload gets the permission error of the ownership guard, an incomplete
\* one the validation error, and the task stays as stored.
C19_UnassignedTaskClosed ==
  [][EmployeeUpdatesUnassignedTask =>
       /\ tasks' = tasks
       /\ \A form \in TaskUpdateForms :
            updateTask(last'.caller, form) =>
              last'.result = IF ValidTaskForm(form) THEN "Forbidden"
                             ELSE "Invalid"]_vars

\* An EMPLOYEE with an employee record was refused on an unassigned task.
C19_Witness ==
  /\ last.op = "updateTask"
  /\ last.role = "EMPLOYEE"
  /\ last.result = "Forbidden"
  /\ last.target \in DOMAIN tasks
  /\ employeeOfUser(last.caller) # NoId
  /\ tasks[last.target].assignedToId = NoId

(***************************************************************************)
(* Creating salary records.                                                *)
(***************************************************************************)
\* C20: saveSalaryRecord inserts a new Salary record only for a caller
\* whose role has create on salaries; for a MANAGER it adds no record.
C20_InsertNeedsCreate ==
  [][(last'.op = "saveSalaryRecord" /\ DOMAIN salaries' # DOMAIN salaries) =>
       hasPermission(last'.role, "salaries", "create")]_vars

(***************************************************************************)
(* The task list: projects and tasks are created and the list is fetched   *)
(* with filters.                                                           *)
(***************************************************************************)
NextTaskList ==
  \/ \E caller \in Callers, form \in ProjectForms : createProject(caller, form) /\ ServerOnly
  \/ \E caller \in Callers, form \in TaskForms : createTask(caller, form) /\ ServerOnly
  \/ \E caller \in Callers, filter \in TaskFilters, page \in TaskPages :
       getTasks(caller, filter, page) /\ ServerOnly

SpecTaskList == Init /\ [][NextTaskList]_vars

\* C21: getTasks applies its filters: every task it returns matches the
\* search text, status, priority, projectId and assignedToId given (each
\* when non-empty), and pagination.total and pagination.pages count the
\* matching tasks only.
C21_GetTasksAppliesFilters ==
  [][\A caller \in Callers, filter \in TaskFilters, page \in TaskPages :
       (getTasks(caller, filter, page) /\ last'.result = "ok") =>
         /\ \A row \in last'.out.tasks : taskWhere(row.rec, filter)
         /\ last'.out.total = Cardinality(taskSelection_Filtered(filter))
         /\ last'.out.pages =
              pagesOf(Cardinality(taskSelection_Filtered(filter)), TaskLimit)]_vars

(***************************************************************************)
(* Project progress: projects and tasks are created, tasks change status,  *)
(* and the project list and the project detail are read.                   *)
(***************************************************************************)
NextProgress ==
  \/ \E caller \in Callers, form \in ProjectForms : createProject(caller, form) /\ ServerOnly
  \/ \E caller \in Callers, form \in TaskForms : createTask(caller, form) /\ ServerOnly
  \/ \E caller \in Callers, form \in TaskUpdateForms : updateTask(caller, form) /\ ServerOnly
  \/ \E caller \in Callers, filter \in ProjectFilters : getProjects(caller, filter) /\ ServerOnly
  \/ \E caller \in Callers, id \in ProjIds : getProjectById(caller, id) /\ ServerOnly

SpecProgress == Init /\ [][NextProgress]_vars

\* C22: for every project getProjects returns, totalTasks is the number of
\* its tasks, completedTasks the number of them with status DONE and
\* progress = round(100 * completedTasks / totalTasks) (0 without tasks):
\* the figures getProjectById reports for that project in the same state.
C22_ListProgressIsDetailProgress ==
  (last.op = "getProjects" /\ last.result = "ok") =>
    \A row \in last.out.projects :
      /\ row.totalTasks = Cardinality(tasksOf(row.id))
      /\ row.completedTasks = Cardinality(doneTasksOf(row.id))
      /\ row.progress = progressOf(row.completedTasks, row.totalTasks)
      /\ row = projectDetailRow(row.id)

(***************************************************************************)
(* The Kanban board in use while other callers create, change and delete   *)
(* tasks.                                                                  *)
(***************************************************************************)
NextKanban ==
  \/ \E caller \in Callers, form \in ProjectForms : createProject(caller, form) /\ ServerOnly
  \/ \E caller \in Callers, form \in TaskForms : createTask(caller, form) /\ ServerOnly
  \/ \E caller \in Callers, form \in BoardTaskForms : updateTask(caller, form) /\ ServerOnly
  \/ \E caller \in Callers, id \in TaskIds : deleteTask(caller, id) /\ ServerOnly
  \/ \E caller \in Callers : TasksPage(caller)
  \/ \E taskId \in TaskIds, destination \in Statuses : handleDragEnd(taskId, destination)

SpecKanban == Init /\ [][NextKanban]_vars

C24_StatusChangeWritesStatusOnly ==
  [][\A taskId \in TaskIds, destination \in Statuses :
       (/\ handleDragEnd(taskId, destination)
        /\ last'.result = "ok"
        /\ last'.role \in {"ADMIN", "MANAGER"}) =>
         tasks'[taskId] = [tasks[taskId] EXCEPT !.status = destination]]_vars

(***************************************************************************)
(* Salary records saved by calls that interleave between their lookup and  *)
(* their write, while employees are created and salary records deleted.    *)
(***************************************************************************)
NextSalaryRace ==
  \/ \E caller \in Callers, form \in EmployeeForms, now \in Nows : createEmployee(caller, form, now) /\ ServerOnly
  \/ \E caller \in Callers, id \in SalIds : deleteSalaryRecord(caller, id) /\ ServerOnly
  \/ \E caller \in Callers, form \in MonthSalaryForms : saveSalaryRecord_lookup(caller, form)
  \/ \E call \in inflight : saveSalaryRecord_write(call)

SpecSalaryRace == Init /\ [][NextSalaryRace]_vars

\* C25: there is at most one Salary record per (employeeId, month, year),
\* also when two saveSalaryRecord calls for the same key interleave
\* between the lookup and the create; the call that loses the race returns
\* an error result and adds no record.
C25_OneSalaryPerMonth ==
  [][/\ \A s1, s2 \in DOMAIN salaries' :
          (/\ salaries'[s1].employeeId = salaries'[s2].employeeId
           /\ salaries'[s1].month = salaries'[s2].month
           /\ salaries'[s1].year = salaries'[s2].year) => s1 = s2
     /\ \A call \in inflight :
          (/\ saveSalaryRecord_write(call)
           /\ call.existing = NoId
           /\ salaryOfMonth(call.form.employeeId, call.form.month,
                            call.form.year) # NoId) =>
            last'.returned = "error" /\ salaries' = salaries]_vars

\* A call found no record for the key at its lookup, another call created
\* one, and the first call's create was refused.
C25_Witness ==
  /\ last.op = "saveSalaryRecord"
  /\ last.result = "StorageError"
  /\ salaryOfMonth(last.target, 1, 2025) # NoId

(***************************************************************************)
(* Employees created while salary records are saved: createEmployee in its *)
(* two writes, saveSalaryRecord between them or after them.                *)
(***************************************************************************)
NextOnboarding ==
  \/ \E caller \in Callers, form \in EmployeeForms : createEmployee_employee(caller, form)
  \/ \E call \in inflight, now \in Nows : createEmployee_salary(call, now)
  \/ \E caller \in Callers, form \in MonthSalaryForms : saveSalaryRecord(caller, form) /\ ServerOnly

SpecOnboarding == Init /\ [][NextOnboarding]_vars

\* C26: createEmployee is all-or-nothing: when it returns an error result
\* no Employee record has been added for the user; when it returns success
\* the new Employee exists with exactly one initial Salary record (current
\* month and year, bonus 0, deductions 0, totalSalary = baseSalary).
C26_CreateEmployeeAllOrNothing ==
  [][/\ \A caller \in Callers, form \in EmployeeForms :
          (createEmployee_employee(caller, form) /\ inflight' = inflight) =>
            last'.returned = "error" /\ employees' = employees
     /\ \A call \in inflight, now \in Nows :
          createEmployee_salary(call, now) =>
            /\ last'.returned = "error" => call.existing \notin DOMAIN employees'
            /\ last'.returned = "success" =>
                 /\ call.existing \in DOMAIN employees'
                 /\ \E s \in DOMAIN salaries' :
                      /\ salaries'[s] =
                           [employeeId |-> call.existing, month |-> now.month,
                            year |-> now.year, baseSalary |-> call.form.baseSalary,
                            bonus |-> 0, deductions |-> 0,
                            totalSalary |-> call.form.baseSalary]
                      /\ \A s2 \in DOMAIN salaries' :
                           salaries'[s2].employeeId = call.existing => s2 = s]_vars

(***************************************************************************)
(* Salary records written by createEmployee and saveSalaryRecord, with     *)
(* months and years inside and outside their ranges.                       *)
(***************************************************************************)
NextSalaryRanges ==
  \/ \E caller \in Callers, form \in EmployeeForms, now \in Nows : createEmployee(caller, form, now) /\ ServerOnly
  \/ \E caller \in Callers, form \in RangeSalaryForms : saveSalaryRecord(caller, form) /\ ServerOnly

SpecSalaryRanges == Init /\ [][NextSalaryRanges]_vars

MonthOrYearOutOfRange(form) ==
  \/ form.month < 1 \/ form.month > 12
  \/ form.year < 2000 \/ form.year > 2100

\* C27: every stored Salary record has totalSalary = baseSalary + bonus -
\* deductions, 1 <= month <= 12 and 2000 <= year <= 2100, after any
\* sequence of createEmployee and saveSalaryRecord calls; a saveSalaryRecord
\* call with a month or year outside these ranges returns an error and
\* changes nothing.
C27_SalaryRecordsWellFormed ==
  [][/\ \A s \in DOMAIN salaries' :
          /\ salaries'[s].totalSalary =
               salaries'[s].baseSalary + salaries'[s].bonus - salaries'[s].deductions
          /\ salaries'[s].month >= 1 /\ salaries'[s].month <= 12
          /\ salaries'[s].year >= 2000 /\ salaries'[s].year <= 2100
     /\ \A form \in {f \in RangeSalaryForms : MonthOrYearOutOfRange(f)} :
          saveSalaryRecord(last'.caller, form) =>
            /\ last'.returned = "error"
            /\ salaries' = salaries /\ employees' = employees]_vars

\* A record saved with a bonus and deductions is stored, and a later call
\* for a month or year out of range has been refused.
C27_Witness ==
  /\ last.op = "saveSalaryRecord"
  /\ last.result = "Invalid"
  /\ last.role \in {"ADMIN", "MANAGER"}
  /\ \E s \in DOMAIN salaries :
       /\ salaries[s].bonus = 10 /\ salaries[s].deductions = 5
       /\ salaries[s].totalSalary = 105

NextTaskRace ==
  \/ \E caller \in Callers, form \in ProjectForms : createProject(caller, form) /\ ServerOnly
  \/ \E caller \in Callers, id \in ProjIds : deleteProject(caller, id) /\ ServerOnly
  \/ \E caller \in Callers, form \in {f \in ProjectTaskForms : f.id = NoId} :
       createTask_lookup(caller, form)
  \/ \E call \in inflight : createTask_write(call)
  \/ \E caller \in Callers, form \in {f \in ProjectTaskForms : f.id # NoId} :
       updateTask_lookup(caller, form)
  \/ \E call \in inflight : updateTask_write(call)

SpecTaskRace == Init /\ [][NextTaskRace]_vars

\* C29: every Task.projectId names an existing Project, also when
\* createTask or updateTask interleave, between their lookups and their
\* write, with deleteProject; deleting a project removes all of its tasks.
C29_TaskProjectsExist ==
  /\ \A t \in DOMAIN tasks : tasks[t].projectId \in DOMAIN projects
  /\ (last.op = "deleteProject" /\ last.result = "ok") => tasksOf(last.target) = {}

\* A createTask call found its project, the project was deleted, and the
\* create was refused.
C29_Witness ==
  /\ last.op = "createTask"
  /\ last.result = "StorageError"
  /\ last.target \in ProjIds \ DOMAIN projects

\* the salary records of the employee record a user owns
ownSalaries(userId) ==
  {s \in DOMAIN salaries :
     /\ salaries[s].employeeId \in DOMAIN employees
     /\ employees[salaries[s].employeeId].userId = userId}

\* C30: no entry point returns to an EMPLOYEE a Salary record of an
\* employee owned by another user: what getEmployeeById (with its last 12
\* salaries) and getEmployeeSalaries return to the caller is computed from
\* the caller's own salary records alone, so two states that differ only in
\* the salary records of other employees give the caller the same result.
C30_EmployeeResultFromOwnSalaries ==
  last.role = "EMPLOYEE" =>
    LET own == ownSalaries(last.caller) IN
    /\ \A row \in last.out.salaries : row.id \in own
    /\ (last.result # "ok" /\ last.op \in {"getEmployeeById", "getEmployeeSalaries"}) =>
         last.out = NoOut
    /\ (last.result = "ok" /\ last.op = "getEmployeeById") =>
         last.out.salaries = Rows(salaries, Take(own, SalaryTake))
    /\ (last.result = "ok" /\ last.op = "getEmployeeSalaries") =>
         /\ \E year \in {NoId, 2025} :
              last.out.salaries =
                Rows(salaries,
                     Take({s \in own : year = NoId \/ salaries[s].year = year},
                          SalaryTake))
         /\ last.out.years = {salaries[s].year : s \in own}

\* An EMPLOYEE read their own employee record with its salaries while the
\* table also held a salary record of another employee.
C30_Witness ==
  /\ last.op = "getEmployeeById"
  /\ last.role = "EMPLOYEE"
  /\ last.result = "ok"
  /\ last.out.salaries # {}
  /\ \E s \in DOMAIN salaries : s \notin ownSalaries(last.caller)
====
